---- MODULE Spec2Model ----
(***************************************************************************)
(* Model of the LLM visibility optimizer's classification, extraction,     *)
(* scoring and aggregation core (src/lib/schema-generator.ts and           *)
(* src/app/api/analyze/route.ts).                                          *)
(*                                                                         *)
(* Conventions                                                             *)
(*   - a JavaScript string that is only tested for emptiness is a string;  *)
(*     a text that is pattern-matched is a sequence of tokens (Tok);       *)
(*   - null numbers are NoNum, null strings are Null;                      *)
(*   - a URL is a record of its pathname segments, a trailing-slash flag   *)
(*     and its query keys (the pathname never holds the query string).     *)
(***************************************************************************)
EXTENDS Integers, Sequences, FiniteSets, TLC

VARIABLES
    pc,        \* position of the modelled run
    url,       \* detectPageType: the URL being classified
    flags,     \* detectPageType: the partial page's schema flags
    pageType,  \* detectPageType: the returned type
    page,      \* the PageAnalysis handed to the page scorer
    score,     \* the ExtractabilityScore it returned
    clock,     \* wall-clock day of the current analysis
    runs,      \* log of (page, day, result) of repeated analyses
    pages,     \* aggregateResults: the analysed pages
    site,      \* aggregateResults: crawl-level signals
    agg,       \* aggregateResults: the SiteAnalysis it returned
    crawl,     \* POST: the crawl loop's URLs, position, seen set, log and response
    gen        \* the artefact generators: their input page or site and what they returned

vars == <<pc, url, flags, pageType, page, score, clock, runs, pages, site, agg, crawl, gen>>

Null == "null"
NoNum == -1
NoResult == [none |-> TRUE]

Min(a, b) == IF a <= b THEN a ELSE b
Max(a, b) == IF a >= b THEN a ELSE b

RECURSIVE SumSeq(_)
SumSeq(s) == IF s = <<>> THEN 0 ELSE Head(s) + SumSeq(Tail(s))

(***************************************************************************)
(* PAGE TYPE DETECTION                                                     *)
(***************************************************************************)

PageTypes == {"product", "collection", "blog", "homepage", "search", "cart", "other"}

\* Lower-cased pathname segments the model draws paths from.
Segs == {"cart", "search", "blog", "products", "product-x", "p-1",
         "collections", "shop", "view"}

\* Segment s makes the pathname contain "/cart", "/basket" or "/checkout".
CartSeg(s) == s \in {"cart", "basket", "checkout"}
\* Segment s makes the pathname contain "/search".
SearchSeg(s) == s \in {"search", "search-results"}
\* Segment names of the blog rule; the rule needs the closing "/".
BlogSeg(s) == s \in {"blog", "news", "article", "post"}
\* /\/products?\//, /\/p\//, /\/dp\//, /\/item\//: whole segments closed by "/".
ProductDirSeg(s) == s \in {"products", "product", "p", "dp", "item"}
\* /\/product-/: a segment that starts with "product-".
ProductDashSeg(s) == s \in {"product-x"}
\* /\/[a-z0-9-]+\/p-[a-z0-9]+/: second half, a segment starting "p-" + alnum.
MyntraItemSeg(s) == s \in {"p-1"}
\* first half: a segment that ends in [a-z0-9-]+ (every segment of Segs does).
MyntraDirSeg(s) == s \in Segs \cup {"basket", "checkout", "search-results", "news",
                                   "article", "post", "product", "p", "dp", "item",
                                   "collection", "categories", "category", "c",
                                   "catalog", "department", "shoes", "x"}
\* collection patterns: whole segments closed by "/".
CollectionDirSeg(s) == s \in {"collections", "collection", "categories", "category",
                              "c", "shop", "catalog", "department"}

\* Segment i of the pathname is followed by "/".
Closed(u, i) == i < Len(u.path) \/ u.slash

\* new URL(url).pathname === "/" (a URL without path parses to "/").
IsRootPath(u) == u.path = <<>>

HasCartPath(u) == \E i \in 1..Len(u.path) : CartSeg(u.path[i])
HasSearchPath(u) == \E i \in 1..Len(u.path) : SearchSeg(u.path[i])
HasBlogPath(u) == \E i \in 1..Len(u.path) : BlogSeg(u.path[i]) /\ Closed(u, i)

\* /\?product=/ is tested against the pathname, which never contains "?":
\* the query string of the URL is not part of what the pattern sees.
QueryPatternOnPath(u) == FALSE

MatchesProductPatterns(u) ==
    \/ \E i \in 1..Len(u.path) : ProductDirSeg(u.path[i]) /\ Closed(u, i)
    \/ \E i \in 1..Len(u.path) : ProductDashSeg(u.path[i])
    \/ QueryPatternOnPath(u)
    \/ \E i \in 1..(Len(u.path) - 1) : MyntraDirSeg(u.path[i]) /\ MyntraItemSeg(u.path[i + 1])

MatchesCollectionPatterns(u) ==
    \E i \in 1..Len(u.path) : CollectionDirSeg(u.path[i]) /\ Closed(u, i)

\* mutant: the product rule is tried before the cart, search and blog rules
detectPageTypeProductFirst(u, f) ==
    IF IsRootPath(u) THEN "homepage"
    ELSE IF MatchesProductPatterns(u) \/ f.hasProductSchema THEN "product"
    ELSE IF HasCartPath(u) THEN "cart"
    ELSE IF HasSearchPath(u) THEN "search"
    ELSE IF HasBlogPath(u) \/ f.hasArticleSchema THEN "blog"
    ELSE IF MatchesCollectionPatterns(u) THEN "collection"
    ELSE "other"

detectPageType(u, f) ==
    IF IsRootPath(u) THEN "homepage"
    ELSE IF HasCartPath(u) THEN "cart"
    ELSE IF HasSearchPath(u) THEN "search"
    ELSE IF HasBlogPath(u) \/ f.hasArticleSchema THEN "blog"
    ELSE IF MatchesProductPatterns(u) THEN "product"
    ELSE IF f.hasProductSchema THEN "product"
    ELSE IF MatchesCollectionPatterns(u) THEN "collection"
    ELSE "other"

(***************************************************************************)
(* TEXT                                                                    *)
(* A pattern-matched text is a sequence of tokens.  A token is one lexeme  *)
(* the extractors' regular expressions can match:                          *)
(*   word     a plain word (sym)                                           *)
(*   symamt   currency symbol + amount, "$50"         (sym, amt)           *)
(*   amtcode  amount + currency code, "50 USD"        (amt, sym)           *)
(*   labeled  "Price: $50"                            (sym, amt)           *)
(*   phrase   an availability / call-to-action phrase (sym)                *)
(*   stars    a run of star glyphs                    (amt filled, n2 empty)*)
(*   outof    "4 out of 5"                            (amt, n2)            *)
(*   nstars   "4 stars"                               (amt)                *)
(*   rated    "rated 4"                               (amt)                *)
(*   reviews  "120 reviews"                           (amt)                *)
(***************************************************************************)

Tok(k, s, a, b) == [kind |-> k, sym |-> s, amt |-> a, n2 |-> b]
Word(w) == Tok("word", w, 0, 0)
SymAmt(s, a) == Tok("symamt", s, a, 0)
AmtCode(a, c) == Tok("amtcode", c, a, 0)
Labeled(s, a) == Tok("labeled", s, a, 0)
Phrase(p) == Tok("phrase", p, 0, 0)
Stars(f, e) == Tok("stars", "", f, e)
OutOf(v, m) == Tok("outof", "", v, m)
NStars(v) == Tok("nstars", "", v, 0)
Rated(v) == Tok("rated", "", v, 0)
Reviews(n) == Tok("reviews", "", n, 0)

\* [...].join(" ") of the title, the meta description and the joined H1 texts
RECURSIVE Concat(_)
Concat(ss) == IF ss = <<>> THEN <<>> ELSE Head(ss) \o Concat(Tail(ss))

\* the tokens of s that satisfy P, in text order ([...text.matchAll(pattern)])
Matches(s, P(_)) == SelectSeq(s, P)

(***************************************************************************)
(* CONTENT EXTRACTION - PRICE                                              *)
(***************************************************************************)

\* currencySymbols, in insertion order (Object.entries)
currencySymbols == <<
    [symbol |-> "$", code |-> "USD"], [symbol |-> "Rupee", code |-> "INR"],
    [symbol |-> "Euro", code |-> "EUR"], [symbol |-> "Pound", code |-> "GBP"],
    [symbol |-> "Yen", code |-> "JPY"], [symbol |-> "Ruble", code |-> "RUB"],
    [symbol |-> "Won", code |-> "KRW"], [symbol |-> "A$", code |-> "AUD"],
    [symbol |-> "C$", code |-> "CAD"], [symbol |-> "HK$", code |-> "HKD"] >>

\* rawText.includes(symbol), for the symbol a price token was written with
RawIncludes(t, symbol) ==
    /\ t.kind \in {"symamt", "labeled"}
    /\ \/ t.sym = symbol
       \/ symbol = "$" /\ t.sym \in {"A$", "C$", "HK$"}

\* the four pricePatterns, as predicates on one token
PricePattern1(t) == t.kind \in {"symamt", "labeled"}
PricePattern2(t) == t.kind = "amtcode"
PricePattern3(t) == t.kind = "labeled" /\ t.sym \in {"$", "Rupee", "Euro", "Pound", "Yen"}
PricePattern4(t) == t.kind \in {"symamt", "labeled"} /\ t.sym = "Rupee"

\* match[2] && match[2].match(/^[A-Z]{3}$/): only pattern 2 captures a code
HasUpperCode(t) == t.kind = "amtcode" /\ t.sym \in {"USD", "INR", "EUR", "GBP", "JPY", "AUD", "CAD", "HKD"}

SymbolCurrency(t) ==
    LET hits == {i \in 1..Len(currencySymbols) : RawIncludes(t, currencySymbols[i].symbol)}
    IN IF hits = {} THEN "USD"
       ELSE currencySymbols[CHOOSE i \in hits : \A j \in hits : i <= j].code

MatchCurrency(t) == IF HasUpperCode(t) THEN t.sym ELSE SymbolCurrency(t)

NoPrice == [value |-> NoNum, currency |-> Null, rawText |-> Null]

\* the result of one pattern: its first match if that has a positive amount
PriceOf(ms) ==
    IF ms # <<>> /\ Head(ms).amt > 0
    THEN [value |-> Head(ms).amt, currency |-> MatchCurrency(Head(ms)), rawText |-> "raw"]
    ELSE NoPrice

extractPriceFromText(text) ==
    LET r1 == PriceOf(Matches(text, PricePattern1))
        r2 == PriceOf(Matches(text, PricePattern2))
        r3 == PriceOf(Matches(text, PricePattern3))
        r4 == PriceOf(Matches(text, PricePattern4))
    IN IF text = <<>> THEN NoPrice
       ELSE IF r1 # NoPrice THEN r1
       ELSE IF r2 # NoPrice THEN r2
       ELSE IF r3 # NoPrice THEN r3
       ELSE r4

(***************************************************************************)
(* CONTENT EXTRACTION - RATING                                             *)
(***************************************************************************)

IsStars(t) == t.kind = "stars"
IsOutOf(t) == t.kind = "outof"
IsNStars(t) == t.kind = "nstars"
IsRated(t) == t.kind = "rated"
IsReviews(t) == t.kind = "reviews"

RECURSIVE SumAmt(_)
SumAmt(ms) == IF ms = <<>> THEN 0 ELSE Head(ms).amt + SumAmt(Tail(ms))
RECURSIVE SumN2(_)
SumN2(ms) == IF ms = <<>> THEN 0 ELSE Head(ms).n2 + SumN2(Tail(ms))

\* countMatch: the first "<N> reviews|ratings" phrase, else 0
ReviewCountIn(text) ==
    LET ms == Matches(text, IsReviews) IN IF ms = <<>> THEN 0 ELSE Head(ms).amt

NoRating == [value |-> NoNum, maxRating |-> 5, count |-> 0, rawText |-> Null]

\* one numeric pattern: its first match if that has a positive value
RatingOf(ms, text) ==
    IF ms # <<>> /\ Head(ms).amt > 0
    THEN [value |-> Head(ms).amt,
          maxRating |-> IF Head(ms).kind = "outof" /\ Head(ms).n2 > 0 THEN Head(ms).n2 ELSE 5,
          count |-> ReviewCountIn(text), rawText |-> "raw"]
    ELSE NoRating

extractRatingFromText(text) ==
    LET stars == Matches(text, IsStars)
        fullStars == SumAmt(stars)
        emptyStars == SumN2(stars)
        total == fullStars + emptyStars
        r2 == RatingOf(Matches(text, IsOutOf), text)
        r3 == RatingOf(Matches(text, IsNStars), text)
        r4 == RatingOf(Matches(text, IsRated), text)
    IN IF text = <<>> THEN NoRating
       ELSE IF fullStars > 0 /\ total <= 5
            THEN [value |-> fullStars, maxRating |-> total,
                  count |-> ReviewCountIn(text), rawText |-> "raw"]
       \* starPatterns[0] yields parseFloat of star glyphs = 0 and is skipped
       ELSE IF r2 # NoRating THEN r2
       ELSE IF r3 # NoRating THEN r3
       ELSE r4

(***************************************************************************)
(* CONTENT EXTRACTION - AVAILABILITY, CALL TO ACTION                       *)
(***************************************************************************)

OutOfStockPhrase(t) ==
    t.kind = "phrase" /\ t.sym \in {"out of stock", "sold out", "unavailable", "notify me", "waitlist"}
PreorderPhrase(t) ==
    t.kind = "phrase" /\ t.sym \in {"pre-order", "coming soon", "available on 5 May"}
InStockPhrase(t) ==
    t.kind = "phrase" /\ t.sym \in {"in stock", "available", "add to cart", "buy now",
                                    "add to bag", "in store", "ready to ship",
                                    \* /\bavailable\b/ matches inside it
                                    "available on 5 May"}
CtaPhrase(t) ==
    t.kind = "phrase" /\ t.sym \in {"add to cart", "add to bag", "buy now", "shop now",
                                    "order now", "purchase", "checkout", "add to basket"}

\* mutant: the in-stock family is tried first
extractAvailabilityFromTextInStockFirst(text) ==
    IF Matches(text, InStockPhrase) # <<>> THEN [status |-> "in_stock", rawText |-> "raw"]
    ELSE IF Matches(text, OutOfStockPhrase) # <<>> THEN [status |-> "out_of_stock", rawText |-> "raw"]
    ELSE IF Matches(text, PreorderPhrase) # <<>> THEN [status |-> "preorder", rawText |-> "raw"]
    ELSE [status |-> "unknown", rawText |-> ""]

extractAvailabilityFromText(text) ==
    IF Matches(text, OutOfStockPhrase) # <<>> THEN [status |-> "out_of_stock", rawText |-> "raw"]
    ELSE IF Matches(text, PreorderPhrase) # <<>> THEN [status |-> "preorder", rawText |-> "raw"]
    ELSE IF Matches(text, InStockPhrase) # <<>> THEN [status |-> "in_stock", rawText |-> "raw"]
    ELSE [status |-> "unknown", rawText |-> ""]

detectPurchaseCTA(text) == [detected |-> Matches(text, CtaPhrase) # <<>>]


(***************************************************************************)
(* STRUCTURED DATA                                                         *)
(* One parsed JSON-LD object.  Absent string properties are "", an absent  *)
(* offers / aggregateRating property has its has-flag FALSE.               *)
(***************************************************************************)

NoIds == [gtin |-> "", gtin13 |-> "", gtin14 |-> "", gtin8 |-> "", mpn |-> "", sku |-> "", productID |-> ""]

SchemaObj(type, hasOffers, offerPrice, hasAgg, ratingValue, ratingCount, reviewN, ids) ==
    [type |-> type, hasOffers |-> hasOffers, offerPrice |-> offerPrice,
     hasAgg |-> hasAgg, ratingValue |-> ratingValue, ratingCount |-> ratingCount,
     reviewN |-> reviewN, ids |-> ids]

(***************************************************************************)
(* IDENTIFIER EXTRACTION                                                   *)
(***************************************************************************)

IsGtinLabel(t) == t.kind = "gtin"
IsMpnLabel(t) == t.kind = "mpn"
IsSkuLabel(t) == t.kind = "sku"

\* mutant: a later object overwrites the value an earlier one supplied
IdStepLastWins(acc, s) ==
    LET g1 == IF s.ids.gtin # "" THEN s.ids.gtin ELSE acc.gtin
        g2 == IF s.ids.gtin13 # "" /\ s.ids.gtin = "" THEN s.ids.gtin13 ELSE g1
        g3 == IF s.ids.gtin14 # "" /\ s.ids.gtin = "" /\ s.ids.gtin13 = "" THEN s.ids.gtin14 ELSE g2
        g4 == IF s.ids.gtin8 # "" /\ s.ids.gtin = "" /\ s.ids.gtin13 = "" /\ s.ids.gtin14 = ""
              THEN s.ids.gtin8 ELSE g3
        m1 == IF s.ids.mpn # "" THEN s.ids.mpn ELSE acc.mpn
        k1 == IF s.ids.sku # "" THEN s.ids.sku ELSE acc.sku
        k2 == IF s.ids.productID # "" /\ s.ids.sku = "" THEN s.ids.productID ELSE k1
    IN [gtin |-> g4, mpn |-> m1, sku |-> k2]

\* one iteration of the loop over jsonLdScripts
IdStep(acc, s) ==
    LET g1 == IF s.ids.gtin # "" /\ acc.gtin = "" THEN s.ids.gtin ELSE acc.gtin
        g2 == IF s.ids.gtin13 # "" /\ g1 = "" THEN s.ids.gtin13 ELSE g1
        g3 == IF s.ids.gtin14 # "" /\ g2 = "" THEN s.ids.gtin14 ELSE g2
        g4 == IF s.ids.gtin8 # "" /\ g3 = "" THEN s.ids.gtin8 ELSE g3
        m1 == IF s.ids.mpn # "" /\ acc.mpn = "" THEN s.ids.mpn ELSE acc.mpn
        k1 == IF s.ids.sku # "" /\ acc.sku = "" THEN s.ids.sku ELSE acc.sku
        k2 == IF s.ids.productID # "" /\ k1 = "" THEN s.ids.productID ELSE k1
    IN [gtin |-> g4, mpn |-> m1, sku |-> k2]

RECURSIVE IdLoop(_, _)
IdLoop(acc, scripts) ==
    IF scripts = <<>> THEN acc ELSE IdLoop(IdStep(acc, Head(scripts)), Tail(scripts))

\* the labelled body-text fallback of one field
BodyId(cur, body, P(_)) ==
    IF cur # "" THEN cur
    ELSE LET ms == Matches(body, P) IN IF ms = <<>> THEN "" ELSE Head(ms).sym

\* identifiers are "" where the code returns null (both are falsy)
extractIdentifiers(scripts, body) ==
    LET a == IdLoop([gtin |-> "", mpn |-> "", sku |-> ""], scripts)
    IN IF body = <<>> THEN a
       ELSE [gtin |-> BodyId(a.gtin, body, IsGtinLabel),
             mpn |-> BodyId(a.mpn, body, IsMpnLabel),
             sku |-> BodyId(a.sku, body, IsSkuLabel)]

(***************************************************************************)
(* CONTENT EXTRACTION - SPECIFICATIONS                                     *)
(***************************************************************************)

\* page.semanticElements[k] || 0
Elem(se, k) == IF k \in DOMAIN se THEN se[k] ELSE 0

detectSpecifications(p) ==
    LET tables == Elem(p.semanticElements, "table")
        lists == Elem(p.semanticElements, "ul") + Elem(p.semanticElements, "ol")
        count0 == IF tables > 0 THEN tables ELSE IF lists > 0 THEN lists ELSE 0
        source0 == IF tables > 0 THEN "table" ELSE IF lists > 0 THEN "list" ELSE Null
        count == IF p.schemas.hasProductSchema THEN Max(count0, 1) ELSE count0
        source == IF p.schemas.hasProductSchema THEN "schema" ELSE source0
    IN [detected |-> count > 0, count |-> count, source |-> source]

(***************************************************************************)
(* FULL CONTENT EXTRACTION                                                 *)
(***************************************************************************)

\* seg.replace(/-/g, " ") on the segments of the vocabulary
Spaced(seg) ==
    CASE seg = "product-x" -> "product x"
      [] seg = "p-1" -> "p 1"
      [] seg = "search-results" -> "search results"
      [] OTHER -> seg

\* the URL fallback of the category: second-to-last segment, or the only one
UrlCategory(u) ==
    IF u.path = <<>> THEN Null
    ELSE Spaced(u.path[IF Len(u.path) > 1 THEN Len(u.path) - 1 ELSE 1])

extractAllContent(p) ==
    LET allText == p.title \o p.metaText \o Concat(p.h1Texts)
        priceResult == extractPriceFromText(allText)
        ratingResult == extractRatingFromText(allText)
        availabilityResult == extractAvailabilityFromText(allText)
        hasCrumbs == p.breadcrumbs # <<>>
    IN [productName |->
            IF p.schemas.hasProductSchema THEN [value |-> p.title, source |-> "schema"]
            ELSE IF p.h1Texts # <<>> THEN [value |-> p.h1Texts[1], source |-> "h1"]
            ELSE IF p.ogTitle # <<>> THEN [value |-> p.ogTitle, source |-> "og"]
            ELSE IF p.title # <<>> THEN [value |-> p.title, source |-> "title"]
            ELSE [value |-> <<>>, source |-> Null],
        price |->
            IF priceResult # NoPrice
            THEN [value |-> priceResult.value, currency |-> priceResult.currency, source |-> "text"]
            ELSE [value |-> NoNum, currency |-> Null, source |-> Null],
        availability |->
            [status |-> availabilityResult.status,
             source |-> IF availabilityResult.rawText # "" THEN "text" ELSE Null],
        rating |->
            IF ratingResult # NoRating
            THEN [value |-> ratingResult.value, maxRating |-> ratingResult.maxRating,
                  count |-> ratingResult.count, source |-> "text"]
            ELSE [value |-> NoNum, maxRating |-> 5, count |-> 0, source |-> Null],
        category |->
            IF hasCrumbs THEN [value |-> p.breadcrumbs[Len(p.breadcrumbs)], source |-> "breadcrumb"]
            ELSE IF p.url.path # <<>> THEN [value |-> UrlCategory(p.url), source |-> "url"]
            ELSE [value |-> Null, source |-> Null],
        specifications |-> detectSpecifications(p),
        images |-> [count |-> p.images.total, hasAlt |-> p.images.withAlt],
        purchaseCTA |-> detectPurchaseCTA(allText)]


(***************************************************************************)
(* PAGE SCORING                                                            *)
(***************************************************************************)

\* JavaScript truthiness of a nullable number
Truthy(n) == n # NoNum /\ n # 0

Leaf(points, max) == [points |-> points, max |-> max]

\* the breakdown as initialised, before any category is scored
EmptyBreakdown(type) ==
    [identity |-> [productName |-> [points |-> 0, max |-> 10, source |-> Null],
                   description |-> Leaf(0, 5),
                   category |-> Leaf(0, 5),
                   totalPoints |-> 0, maxPoints |-> 20],
     pricing |-> [price |-> [points |-> 0, max |-> 12, found |-> FALSE, value |-> NoNum, source |-> Null],
                  currency |-> Leaf(0, 3),
                  totalPoints |-> 0, maxPoints |-> 15],
     availability |-> [points |-> 0, max |-> 10, status |-> "unknown", source |-> Null],
     reviews |-> [rating |-> Leaf(0, 10), count |-> Leaf(0, 10), totalPoints |-> 0, maxPoints |-> 20],
     identifiers |-> [points |-> 0, max |-> 10, hasGTIN |-> FALSE, hasMPN |-> FALSE, hasSKU |-> FALSE, count |-> 0],
     images |-> Leaf(0, 5),
     specifications |-> [points |-> 0, max |-> 10, count |-> 0],
     schemaBonus |-> Leaf(0, 10),
     pageContext |-> [detectedType |-> type,
                      isApplicable |-> type \in {"product", "collection"},
                      reason |-> Null]]

ProductNamePoints(p, x) ==
    IF p.schemas.hasProductSchema /\ p.title # <<>> THEN 10
    ELSE IF x.productName.source = "h1" /\ x.productName.value # <<>> THEN 8
    ELSE IF x.productName.value # <<>> THEN 5
    ELSE 0

ProductNameSource(p, x) ==
    IF p.schemas.hasProductSchema /\ p.title # <<>> THEN "schema"
    ELSE IF x.productName.source = "h1" /\ x.productName.value # <<>> THEN "h1"
    ELSE IF x.productName.value # <<>>
         THEN (IF x.productName.source # Null THEN x.productName.source ELSE "content")
    ELSE Null

DescriptionPoints(p) ==
    IF p.descLength >= 120 THEN 5 ELSE IF p.descLength >= 50 THEN 3 ELSE 0

CategoryPoints(p, x) ==
    IF p.schemas.hasBreadcrumbSchema /\ x.category.value # Null THEN 5
    ELSE IF x.category.value # Null THEN 3
    ELSE 0

PricePoints(p, x) ==
    IF p.schemas.hasOfferSchema /\ Truthy(x.price.value) THEN 12
    ELSE IF Truthy(x.price.value) THEN 10
    ELSE 0

PriceSource(p, x) ==
    IF p.schemas.hasOfferSchema /\ Truthy(x.price.value) THEN "schema"
    ELSE IF Truthy(x.price.value) THEN (IF x.price.source # Null THEN x.price.source ELSE "text")
    ELSE Null

CurrencyPoints(p, x) ==
    IF x.price.currency # Null THEN (IF p.schemas.hasOfferSchema THEN 3 ELSE 2) ELSE 0

AvailabilityPoints(p, x) ==
    IF p.schemas.hasOfferSchema THEN 10
    ELSE IF x.availability.status # "unknown" THEN 8
    ELSE IF x.purchaseCTA.detected THEN 5
    ELSE 0

AvailabilitySource(p, x) ==
    IF p.schemas.hasOfferSchema THEN "schema"
    ELSE IF x.availability.status # "unknown"
         THEN (IF x.availability.source # Null THEN x.availability.source ELSE "text")
    ELSE IF x.purchaseCTA.detected THEN "cta"
    ELSE Null

AvailabilityStatus(p, x) ==
    IF p.schemas.hasOfferSchema \/ x.availability.status # "unknown" THEN x.availability.status
    ELSE IF x.purchaseCTA.detected THEN "in_stock"
    ELSE "unknown"

\* page.reviews?.averageRating || extraction.rating?.value || null
RatingValue(p, x) ==
    IF Truthy(p.reviews.averageRating) THEN p.reviews.averageRating
    ELSE IF Truthy(x.rating.value) THEN x.rating.value
    ELSE NoNum

\* page.reviews?.reviewCount || extraction.rating?.count || 0
ReviewCount(p, x) ==
    IF Truthy(p.reviews.reviewCount) THEN p.reviews.reviewCount
    ELSE IF Truthy(x.rating.count) THEN x.rating.count
    ELSE 0

RatingPoints(p, x) ==
    IF RatingValue(p, x) # NoNum THEN (IF p.schemas.hasAggregateRating THEN 10 ELSE 8) ELSE 0

\* mutant: the last tier awards the raw review count instead of 2 points
ReviewCountPointsRaw(n) ==
    IF n <= 0 THEN 0
    ELSE IF n >= 100 THEN 10
    ELSE IF n >= 50 THEN 8
    ELSE IF n >= 10 THEN 6
    ELSE IF n >= 5 THEN 4
    ELSE n + 10

ReviewCountPoints(n) ==
    IF n <= 0 THEN 0
    ELSE IF n >= 100 THEN 10
    ELSE IF n >= 50 THEN 8
    ELSE IF n >= 10 THEN 6
    ELSE IF n >= 5 THEN 4
    ELSE 2

\* mutant: every identifier found adds its own points
IdentifierPointsAdditive(ids) ==
    (IF ids.gtin # "" THEN 10 ELSE 0) + (IF ids.mpn # "" THEN 7 ELSE 0) + (IF ids.sku # "" THEN 5 ELSE 0)

IdentifierPoints(ids) ==
    IF ids.gtin # "" THEN 10
    ELSE IF ids.mpn # "" THEN 7
    ELSE IF ids.sku # "" THEN 5
    ELSE 0

\* altRatio = withAlt / imageCount, compared without division
ImagePoints(imageCount, withAlt) ==
    IF imageCount >= 3 /\ 5 * withAlt >= 4 * imageCount THEN 5
    ELSE IF imageCount >= 2 /\ 2 * withAlt >= imageCount THEN 4
    ELSE IF imageCount >= 1 /\ 2 * withAlt >= imageCount THEN 3
    ELSE IF imageCount >= 1 THEN 2
    ELSE 0

SpecificationPoints(x) ==
    IF ~x.specifications.detected THEN 0
    ELSE IF x.specifications.count >= 5 THEN 10
    ELSE IF x.specifications.count >= 3 THEN 7
    ELSE 5

\* mutant: only a page that is not stale earns the schema bonus
SchemaBonusPointsWhenFresh(p) ==
    IF p.freshness.status = "stale" THEN 0
    ELSE IF p.schemas.hasProductSchema /\ p.schemas.hasOfferSchema /\ p.schemas.hasAggregateRating THEN 10
    ELSE IF p.schemas.hasProductSchema /\ p.schemas.hasOfferSchema THEN 8
    ELSE IF p.schemas.hasProductSchema THEN 5
    ELSE 0

SchemaBonusPoints(p) ==
    IF p.schemas.hasProductSchema /\ p.schemas.hasOfferSchema /\ p.schemas.hasAggregateRating THEN 10
    ELSE IF p.schemas.hasProductSchema /\ p.schemas.hasOfferSchema THEN 8
    ELSE IF p.schemas.hasProductSchema THEN 5
    ELSE 0

CategorySum(b) ==
    b.identity.totalPoints + b.pricing.totalPoints + b.availability.points +
    b.reviews.totalPoints + b.identifiers.points + b.images.points +
    b.specifications.points + b.schemaBonus.points

\* mutant: the schema bonus is added on top of the capped score
TotalScoreBonusOnTop(b) == Min(100, CategorySum(b)) + b.schemaBonus.points

TotalScore(b) == Min(100, CategorySum(b))

ScoreLabel(total) ==
    IF total >= 80 THEN "Excellent"
    ELSE IF total >= 60 THEN "Good"
    ELSE IF total >= 40 THEN "Fair"
    ELSE "Poor"

\* the breakdown of an applicable page, category by category
ScoredBreakdown(p, x, ids) ==
    LET e == EmptyBreakdown(p.pageType)
        name == ProductNamePoints(p, x)
        desc == DescriptionPoints(p)
        cat == CategoryPoints(p, x)
        price == PricePoints(p, x)
        cur == CurrencyPoints(p, x)
        rating == RatingPoints(p, x)
        cnt == ReviewCountPoints(ReviewCount(p, x))
    IN [e EXCEPT
          !.identity = [productName |-> [points |-> name, max |-> 10, source |-> ProductNameSource(p, x)],
                        description |-> Leaf(desc, 5),
                        category |-> Leaf(cat, 5),
                        totalPoints |-> name + desc + cat, maxPoints |-> 20],
          !.pricing = [price |-> [points |-> price, max |-> 12, found |-> price > 0,
                                  value |-> IF Truthy(x.price.value) THEN x.price.value ELSE NoNum,
                                  source |-> PriceSource(p, x)],
                       currency |-> Leaf(cur, 3),
                       totalPoints |-> price + cur, maxPoints |-> 15],
          !.availability = [points |-> AvailabilityPoints(p, x), max |-> 10,
                            status |-> AvailabilityStatus(p, x), source |-> AvailabilitySource(p, x)],
          !.reviews = [rating |-> Leaf(rating, 10), count |-> Leaf(cnt, 10),
                       totalPoints |-> rating + cnt, maxPoints |-> 20],
          !.identifiers = [points |-> IdentifierPoints(ids), max |-> 10,
                           hasGTIN |-> ids.gtin # "", hasMPN |-> ids.mpn # "", hasSKU |-> ids.sku # "",
                           count |-> Cardinality({f \in {"gtin", "mpn", "sku"} : ids[f] # ""})],
          !.images = Leaf(ImagePoints(p.images.total, p.images.withAlt), 5),
          !.specifications = [points |-> SpecificationPoints(x), max |-> 10,
                              count |-> IF x.specifications.detected THEN x.specifications.count ELSE 0],
          !.schemaBonus = Leaf(SchemaBonusPoints(p), 10)]

\* mutant: the page-type gate is missing, every page is scored
calculateExtractabilityScoreNoGate(p) ==
    LET b == ScoredBreakdown(p, p.contentExtraction, extractIdentifiers(p.jsonLdScripts, <<>>))
    IN [score |-> TotalScore(b), max |-> 100, label |-> ScoreLabel(TotalScore(b)), breakdown |-> b]

calculateExtractabilityScore(p) ==
    IF p.pageType \notin {"product", "collection"}
    THEN [score |-> 0, max |-> 100, label |-> "N/A",
          breakdown |-> [EmptyBreakdown(p.pageType) EXCEPT
                            !.pageContext.reason = "Scoring only applies to product/collection pages."]]
    ELSE LET b == ScoredBreakdown(p, p.contentExtraction, extractIdentifiers(p.jsonLdScripts, <<>>))
         IN [score |-> TotalScore(b), max |-> 100, label |-> ScoreLabel(TotalScore(b)), breakdown |-> b]


(***************************************************************************)
(* PAGE ANALYSIS (analyzePage)                                             *)
(* sig is what the HTML parser hands over: the URL, the title and meta     *)
(* description, the H1 texts, the JSON-LD objects, element counts, the     *)
(* breadcrumb links found in the DOM and the detected modification day.    *)
(***************************************************************************)

HasType(scripts, types) == \E i \in 1..Len(scripts) : scripts[i].type \in types

SchemaFlags(scripts) ==
    [hasProductSchema |-> HasType(scripts, {"Product"}),
     hasOrganizationSchema |-> HasType(scripts, {"Organization", "LocalBusiness"}),
     hasFAQSchema |-> HasType(scripts, {"FAQPage"}),
     hasBreadcrumbSchema |-> HasType(scripts, {"BreadcrumbList"}),
     hasReviewSchema |-> HasType(scripts, {"Review"}),
     hasAggregateRating |-> \E i \in 1..Len(scripts) :
                                scripts[i].hasAgg \/ scripts[i].type = "AggregateRating",
     hasArticleSchema |-> HasType(scripts, {"Article", "BlogPosting", "NewsArticle"}),
     hasOfferSchema |-> \E i \in 1..Len(scripts) :
                            scripts[i].hasOffers \/ scripts[i].type = "Offer"]

\* the forEach over the JSON-LD objects: the last object that has a value wins
RECURSIVE ReviewLoop(_, _)
ReviewLoop(acc, scripts) ==
    IF scripts = <<>> THEN acc
    ELSE LET o == Head(scripts)
             rated == o.hasAgg \/ o.type = "AggregateRating"
             a1 == IF rated
                   THEN [acc EXCEPT !.averageRating = IF o.ratingValue # 0 THEN o.ratingValue ELSE NoNum,
                                    !.ratingCount = o.ratingCount]
                   ELSE acc
             a2 == IF o.reviewN > 0 THEN [a1 EXCEPT !.reviewCount = o.reviewN] ELSE a1
         IN ReviewLoop(a2, Tail(scripts))

ReviewInfo(scripts) ==
    LET r == ReviewLoop([averageRating |-> NoNum, ratingCount |-> 0, reviewCount |-> 0], scripts)
        f == SchemaFlags(scripts)
    IN [hasReviews |-> r.reviewCount > 0 \/ r.ratingCount > 0 \/ f.hasReviewSchema \/ f.hasAggregateRating,
        reviewCount |-> r.reviewCount, averageRating |-> r.averageRating, ratingCount |-> r.ratingCount]

\* the URL fallback of the breadcrumbs keeps non-numeric segments longer than 2
LongSeg(seg) == seg \notin {"p", "c", "dp", "x"}

\* seg.replace(/-/g, " ").replace(/\b\w/g, c => c.toUpperCase())
TitleCase(seg) ==
    CASE seg = "cart" -> "Cart"
      [] seg = "search" -> "Search"
      [] seg = "blog" -> "Blog"
      [] seg = "products" -> "Products"
      [] seg = "product-x" -> "Product X"
      [] seg = "p-1" -> "P 1"
      [] seg = "collections" -> "Collections"
      [] seg = "shop" -> "Shop"
      [] seg = "view" -> "View"
      [] OTHER -> seg

Breadcrumbs(sig) ==
    IF sig.domCrumbs # <<>> THEN sig.domCrumbs
    ELSE LET kept == SelectSeq(sig.url.path, LongSeg)
         IN [i \in 1..Len(kept) |-> TitleCase(kept[i])]

FRESH_DAYS == 90
ACCEPTABLE_DAYS == 365
STALE_DAYS == 730

detectFreshness(sig, now) ==
    IF sig.modifiedDay = NoNum
    THEN [daysSinceUpdate |-> NoNum, freshnessScore |-> 50, status |-> "unknown"]
    ELSE LET d == now - sig.modifiedDay
         IN [daysSinceUpdate |-> d,
             freshnessScore |-> IF d <= FRESH_DAYS THEN 100 ELSE IF d <= ACCEPTABLE_DAYS THEN 75
                                ELSE IF d <= STALE_DAYS THEN 50 ELSE 25,
             status |-> IF d <= ACCEPTABLE_DAYS THEN "fresh" ELSE "stale"]

\* the page data assembled before the content extraction runs
PageData(sig, now) ==
    [url |-> sig.url, title |-> sig.title, metaText |-> sig.metaText, descLength |-> sig.descLength,
     h1Texts |-> sig.h1Texts, ogTitle |-> sig.ogTitle, ogKeys |-> sig.ogKeys,
     ogImage |-> sig.ogImage,
     jsonLdScripts |-> sig.jsonLd,
     headings |-> [h1 |-> Len(sig.h1Texts)],
     images |-> [total |-> sig.images.total, withAlt |-> sig.images.withAlt,
                 withoutAlt |-> sig.images.total - sig.images.withAlt],
     \* tables and lists are not among the elements analyzePage counts
     semanticElements |-> [article |-> 0, section |-> 0, nav |-> 0, main |-> 0,
                           aside |-> 0, header |-> 0, footer |-> 0],
     schemas |-> SchemaFlags(sig.jsonLd),
     reviews |-> ReviewInfo(sig.jsonLd),
     freshness |-> detectFreshness(sig, now),
     breadcrumbs |-> Breadcrumbs(sig),
     \* extractQuoteReadySnippets: the first five such sentences
     quoteReadySnippets |-> Min(5, sig.quoteSentences),
     pageType |-> detectPageType(sig.url, SchemaFlags(sig.jsonLd))]

\* the score and scoreBreakdown fields analyzePage adds with calculatePageScore
\* are read by nothing modelled here and are left out
analyzePage(sig, now) ==
    LET d == PageData(sig, now)
    IN [f \in DOMAIN d \cup {"contentExtraction"} |->
            IF f = "contentExtraction" THEN extractAllContent(d) ELSE d[f]]


(***************************************************************************)
(* INPUTS OF THE PAGE SCORER                                               *)
(* A choice record c fixes every signal of one page.  The scored pages are *)
(* every choice of URL and schema flags, combined with one group of        *)
(* signals ranging over its whole domain while the other groups are all    *)
(* absent (LoChoice) or all present (HiChoice).                            *)
(***************************************************************************)

MaxImages == 3

U(path) == [path |-> path, slash |-> FALSE, query |-> {}, https |-> TRUE]

\* one URL per page type
ScoreUrls == {U(<<>>), U(<<"cart">>), U(<<"search">>), U(<<"blog", "view">>),
              U(<<"products", "view">>), U(<<"collections", "view">>), U(<<"view">>)}

T == Word("Mouse")
TitleTexts == {
    <<>>,
    <<T>>,
    <<T, SymAmt("$", 50), Word("off")>>,
    <<T, SymAmt("$", 0)>>,
    <<T, SymAmt("$", 0), AmtCode(50, "EUR")>>,
    <<T, SymAmt("A$", 50)>>,
    <<T, Phrase("in stock")>>,
    <<T, Phrase("in stock"), Phrase("out of stock")>>,
    <<T, Phrase("pre-order")>>,
    <<T, Phrase("shop now")>>,
    <<T, Stars(4, 1)>>,
    <<T, Rated(4), Reviews(7)>>,
    <<T, Reviews(120)>>,
    <<T, SymAmt("$", 50), Phrase("in stock"), NStars(4), Reviews(120)>> }

H1Choices == {<<>>, << <<>> >>, << <<Word("Mouse")>> >>}
OgChoices == {<<>>, <<Word("Mouse")>>}
DescLengths == {0, 49, 50, 119, 120}
CrumbChoices == {<<>>, <<"Shoes">>}
IdChoices == {[NoIds EXCEPT !.gtin = g, !.mpn = m, !.sku = k] :
                g \in {"", "G"}, m \in {"", "M"}, k \in {"", "K"}}
RatingValues == {0, 4}
ReviewCounts == {0, 1, 4, 5, 9, 10, 49, 50, 99, 100}
ImageChoices == UNION {{[total |-> t, withAlt |-> a] : a \in 0..t} : t \in 0..MaxImages}

LoChoice ==
    [title |-> <<>>, h1 |-> <<>>, og |-> <<>>, desc |-> 0, crumbs |-> <<>>,
     ids |-> NoIds, ratingValue |-> 0, reviewN |-> 0,
     img |-> [total |-> 0, withAlt |-> 0], modifiedDay |-> NoNum]

HiChoice ==
    [title |-> <<T, SymAmt("$", 50), Phrase("in stock"), NStars(4), Reviews(120)>>,
     h1 |-> << <<Word("Mouse")>> >>, og |-> <<Word("Mouse")>>, desc |-> 120, crumbs |-> <<"Shoes">>,
     ids |-> [NoIds EXCEPT !.gtin = "G", !.mpn = "M", !.sku = "K"],
     ratingValue |-> 4, reviewN |-> 100,
     img |-> [total |-> MaxImages, withAlt |-> MaxImages], modifiedDay |-> NoNum]

\* the groups of signals, each over its whole domain
GroupChoices ==
    [h1 : H1Choices, og : OgChoices, desc : DescLengths, crumbs : CrumbChoices]
      \cup [title : TitleTexts]
      \cup [ids : IdChoices]
      \cup [ratingValue : RatingValues, reviewN : ReviewCounts]
      \cup [img : ImageChoices]

Merge(base, v) == [f \in DOMAIN base |-> IF f \in DOMAIN v THEN v[f] ELSE base[f]]

FactChoices == {Merge(b, v) : b \in {LoChoice, HiChoice}, v \in GroupChoices}

SchemaChoices == [prod : BOOLEAN, offer : BOOLEAN, agg : BOOLEAN, bcl : BOOLEAN]

\* the JSON-LD objects of a page with schema choice sc and fact choice c; an
\* offer is priced 999
JsonLdOf(sc, c) ==
    << SchemaObj(IF sc.prod THEN "Product" ELSE "Thing",
                 sc.offer, IF sc.offer THEN 999 ELSE NoNum,
                 sc.agg, IF sc.agg THEN c.ratingValue ELSE 0, IF sc.agg THEN c.reviewN ELSE 0,
                 c.reviewN, c.ids) >>
    \o (IF sc.bcl THEN <<SchemaObj("BreadcrumbList", FALSE, NoNum, FALSE, 0, 0, 0, NoIds)>> ELSE <<>>)

SignalsOf(u, sc, c) ==
    [url |-> u, title |-> c.title, metaText |-> <<>>, descLength |-> c.desc,
     h1Texts |-> c.h1, ogTitle |-> c.og, ogKeys |-> IF c.og # <<>> THEN 4 ELSE 0,
     ogImage |-> c.og # <<>>,
     jsonLd |-> JsonLdOf(sc, c), images |-> c.img, domCrumbs |-> c.crumbs,
     modifiedDay |-> c.modifiedDay,
     \* the sentences of the body text that pass the filter of extractQuoteReadySnippets
     quoteSentences |-> 0]

\* the product page "Wireless Mouse": no JSON-LD, a title, a 130-character meta
\* description holding "$29.99" (in cents) and "In Stock", one H1, two images
\* with alt text; its three-row specification table is markup analyzePage
\* does not count (semanticElements)
WirelessMouse ==
    [SignalsOf(U(<<"products", "view">>),
               [prod |-> FALSE, offer |-> FALSE, agg |-> FALSE, bcl |-> FALSE],
               [title |-> <<Word("Wireless"), T>>, h1 |-> << <<Word("Wireless"), T>> >>,
                og |-> <<>>, desc |-> 130, crumbs |-> <<>>,
                ids |-> NoIds, ratingValue |-> 0, reviewN |-> 0,
                img |-> [total |-> 2, withAlt |-> 2], modifiedDay |-> NoNum])
        EXCEPT !.jsonLd = <<>>,
               !.metaText = <<SymAmt("$", 2999), Phrase("in stock")>>]

ScoreSignals ==
    {SignalsOf(u, sc, c) : u \in ScoreUrls, sc \in SchemaChoices, c \in FactChoices}
        \cup {WirelessMouse}

(***************************************************************************)
(* SPECIFICATION SpecScore: every page of ScoreSignals is analysed and     *)
(* handed to calculateExtractabilityScore.                                 *)
(***************************************************************************)

Idle == [none |-> TRUE]

InitScore ==
    /\ pc = "analysed"
    /\ page \in {analyzePage(sg, 0) : sg \in ScoreSignals}
    /\ score = NoResult
    /\ url = Idle /\ flags = Idle /\ pageType = Null
    /\ clock = 0 /\ runs = <<>>
    /\ pages = <<>> /\ site = Idle /\ agg = NoResult
    /\ crawl = Idle
    /\ gen = Idle

ScorePage ==
    /\ pc = "analysed"
    /\ score' = calculateExtractabilityScore(page)
    /\ pc' = "scored"
    /\ UNCHANGED <<url, flags, pageType, page, clock, runs, pages, site, agg, crawl, gen>>

NextScore == ScorePage

SpecScore == InitScore /\ [][NextScore]_vars

Applicable == page.pageType \in {"product", "collection"}

\* every leaf of a breakdown as a (points, max) pair
Leaves(b) == {Leaf(b.identity.productName.points, b.identity.productName.max),
              Leaf(b.identity.description.points, b.identity.description.max),
              Leaf(b.identity.category.points, b.identity.category.max),
              Leaf(b.pricing.price.points, b.pricing.price.max),
              Leaf(b.pricing.currency.points, b.pricing.currency.max),
              Leaf(b.availability.points, b.availability.max),
              Leaf(b.reviews.rating.points, b.reviews.rating.max),
              Leaf(b.reviews.count.points, b.reviews.count.max),
              Leaf(b.identifiers.points, b.identifiers.max),
              Leaf(b.images.points, b.images.max),
              Leaf(b.specifications.points, b.specifications.max),
              Leaf(b.schemaBonus.points, b.schemaBonus.max)}

\* the JSON-LD objects of the page carry the identifier / an offer price
PageHasGtin == \E i \in 1..Len(page.jsonLdScripts) :
                  \E f \in {"gtin", "gtin13", "gtin14", "gtin8"} : page.jsonLdScripts[i].ids[f] # ""
PageHasMpn == \E i \in 1..Len(page.jsonLdScripts) : page.jsonLdScripts[i].ids.mpn # ""
PageHasSku == \E i \in 1..Len(page.jsonLdScripts) :
                  \E f \in {"sku", "productID"} : page.jsonLdScripts[i].ids[f] # ""
PageOfferPrices == {page.jsonLdScripts[i].offerPrice : i \in
                        {j \in 1..Len(page.jsonLdScripts) :
                            page.jsonLdScripts[j].hasOffers /\ page.jsonLdScripts[j].offerPrice # NoNum}}
PageTextHas(tok) == \E i \in 1..Len(page.title) : page.title[i] = tok

\* C1: a product or collection page always gets an integer score between 0 and 100
C1_ScoreInRange ==
    (pc = "scored" /\ Applicable) => (score.score \in 0..100 /\ score.max = 100)

C1_Witness ==
    pc = "scored" /\ Applicable /\ score.score >= 90

\* C2: a homepage, blog, search, cart or other page gets score 0, label N/A,
\* isApplicable = FALSE, a reason, and 0 points in every category, whatever it carries
C2_NotApplicableIsZero ==
    (pc = "scored" /\ ~Applicable) =>
        /\ score.score = 0
        /\ score.label = "N/A"
        /\ score.breakdown.pageContext.isApplicable = FALSE
        /\ score.breakdown.pageContext.reason # Null
        /\ score.breakdown.pageContext.detectedType = page.pageType
        /\ \A l \in Leaves(score.breakdown) : l.points = 0
        /\ score.breakdown.identity.totalPoints = 0
        /\ score.breakdown.pricing.totalPoints = 0
        /\ score.breakdown.reviews.totalPoints = 0

C2_Witness ==
    /\ pc = "scored"
    /\ page.pageType = "homepage"
    /\ page.schemas.hasProductSchema /\ page.schemas.hasOfferSchema
    /\ PageHasGtin
    /\ page.title # <<>>
    /\ score.score = 0

C4_StructuredPriceWins ==
    (pc = "scored" /\ PageOfferPrices # {}) =>
        /\ page.contentExtraction.price.value \in PageOfferPrices
        /\ page.contentExtraction.price.source = "schema"

\* C9: identifier points are 10 with a GTIN, else 7 with an MPN, else 5 with
\* a SKU, else 0 - never the sum
C9_IdentifierPrecedence ==
    (pc = "scored" /\ Applicable) =>
        score.breakdown.identifiers.points =
            IF PageHasGtin THEN 10 ELSE IF PageHasMpn THEN 7 ELSE IF PageHasSku THEN 5 ELSE 0

C9_Witness ==
    /\ pc = "scored" /\ Applicable
    /\ PageHasGtin /\ PageHasMpn
    /\ score.breakdown.identifiers.points = 10

(***************************************************************************)
(* CLASSIFICATION RUNS: detectPageType on one URL with the partial page's   *)
(* schema flags, as analyzePage calls it.                                   *)
(***************************************************************************)

MaxPathLen == 2

Paths == UNION {[1..n -> Segs] : n \in 0..MaxPathLen}
QueryKeys == {{}, {"product"}}
ClassifyUrls == {[path |-> q, slash |-> sl, query |-> k, https |-> TRUE] :
                    q \in Paths, sl \in BOOLEAN, k \in QueryKeys}
ClassifyFlags == [hasProductSchema : BOOLEAN, hasArticleSchema : BOOLEAN]

InitClassify ==
    /\ pc = "start"
    /\ url \in ClassifyUrls
    /\ flags \in ClassifyFlags
    /\ pageType = Null
    /\ page = Idle /\ score = NoResult
    /\ clock = 0 /\ runs = <<>>
    /\ pages = <<>> /\ site = Idle /\ agg = NoResult
    /\ crawl = Idle
    /\ gen = Idle

Classify ==
    /\ pc = "start"
    /\ pageType' = detectPageType(url, flags)
    /\ pc' = "classified"
    /\ UNCHANGED <<url, flags, page, score, clock, runs, pages, site, agg, crawl, gen>>

NextClassify == Classify

SpecClassify == InitClassify /\ [][NextClassify]_vars

\* the rules of detectPageType, each on its own
RuleHomepage == IsRootPath(url)
RuleCart == HasCartPath(url)
RuleSearch == HasSearchPath(url)
RuleBlog == HasBlogPath(url) \/ flags.hasArticleSchema
RuleProduct == MatchesProductPatterns(url) \/ flags.hasProductSchema
RuleCollection == MatchesCollectionPatterns(url)

\* C7: the returned type is that of the first matching rule in the order
\* homepage, cart, search, blog, product, collection, other; so cart beats a
\* product pattern, the article flag beats the product flag, the root path beats
\* the product flag, and a product pattern beats a collection pattern
C7_FirstMatchWins ==
    pc = "classified" =>
        /\ RuleHomepage => pageType = "homepage"
        /\ (~RuleHomepage /\ RuleCart) => pageType = "cart"
        /\ (~RuleHomepage /\ ~RuleCart /\ RuleSearch) => pageType = "search"
        /\ (~RuleHomepage /\ ~RuleCart /\ ~RuleSearch /\ RuleBlog) => pageType = "blog"
        /\ (~RuleHomepage /\ ~RuleCart /\ ~RuleSearch /\ ~RuleBlog /\ RuleProduct) =>
                pageType = "product"
        /\ (~RuleHomepage /\ ~RuleCart /\ ~RuleSearch /\ ~RuleBlog /\ ~RuleProduct
                /\ RuleCollection) => pageType = "collection"
        /\ (~RuleHomepage /\ ~RuleCart /\ ~RuleSearch /\ ~RuleBlog /\ ~RuleProduct
                /\ ~RuleCollection) => pageType = "other"
        /\ (RuleCart /\ MatchesProductPatterns(url)) => pageType = "cart"
        /\ (~RuleHomepage /\ ~RuleCart /\ ~RuleSearch
                /\ flags.hasArticleSchema /\ flags.hasProductSchema) => pageType = "blog"
        /\ (RuleHomepage /\ flags.hasProductSchema) => pageType = "homepage"
        /\ (~RuleCart /\ ~RuleSearch /\ ~RuleBlog
                /\ MatchesProductPatterns(url) /\ RuleCollection) => pageType = "product"

C7_Witness ==
    /\ pc = "classified"
    /\ RuleCart /\ MatchesProductPatterns(url)
    /\ ~flags.hasProductSchema /\ ~flags.hasArticleSchema
    /\ pageType = "cart"

\* C8: a URL with a product= query key that no homepage, cart, search or blog
\* rule matches and whose product flag is not set is classified product
C8_QueryKeyIsProduct ==
    (/\ pc = "classified"
     /\ "product" \in url.query
     /\ ~RuleHomepage /\ ~RuleCart /\ ~RuleSearch /\ ~RuleBlog
     /\ ~flags.hasProductSchema) => pageType = "product"

(***************************************************************************)
(* REPEATED ANALYSES: the pages of a small pool are analysed and scored    *)
(* again and again, in any order, while the wall clock advances.           *)
(* analyzePage reads the clock (detectFreshness calls new Date()).         *)
(***************************************************************************)

MaxRuns == 3
PoolSize == 2

\* days on which an analysis can run: one in each freshness band of a page
\* modified on day 0
ClockDays == {0, FRESH_DAYS + 1, ACCEPTABLE_DAYS + 1, STALE_DAYS + 1}

AllSchemas == [prod |-> TRUE, offer |-> TRUE, agg |-> TRUE, bcl |-> TRUE]

RerunSignals ==
    {SignalsOf(u, AllSchemas, Merge(HiChoice, [modifiedDay |-> m])) :
        u \in {U(<<>>), U(<<"products", "view">>)}, m \in {NoNum, 0}}

InitRerun ==
    /\ pc = "idle"
    /\ pages \in [1..PoolSize -> RerunSignals]
    /\ clock = 0
    /\ runs = <<>>
    /\ page = Idle /\ score = NoResult
    /\ url = Idle /\ flags = Idle /\ pageType = Null
    /\ site = Idle /\ agg = NoResult
    /\ crawl = Idle
    /\ gen = Idle

\* time passes between two analyses
Tick ==
    /\ \E d \in ClockDays : d > clock /\ clock' = d
    /\ UNCHANGED <<pc, url, flags, pageType, page, score, runs, pages, site, agg, crawl, gen>>

\* page i of the pool is fetched, analysed at the current day and scored
AnalyseAndScore(i) ==
    /\ Len(runs) < MaxRuns
    /\ page' = analyzePage(pages[i], clock)
    /\ score' = calculateExtractabilityScore(page')
    /\ runs' = Append(runs, [idx |-> i, day |-> clock, freshness |-> page'.freshness,
                             result |-> score'])
    /\ pc' = "scored"
    /\ UNCHANGED <<url, flags, pageType, clock, pages, site, agg, crawl, gen>>

NextRerun == Tick \/ \E i \in 1..PoolSize : AnalyseAndScore(i)

SpecRerun == InitRerun /\ [][NextRerun]_vars

\* C5: two runs on identical page signals return the same score, label and
\* breakdown, whatever the days they ran on and whatever ran in between
C5_ScoreDeterministic ==
    \A i, j \in 1..Len(runs) :
        pages[runs[i].idx] = pages[runs[j].idx] =>
            /\ runs[i].result.score = runs[j].result.score
            /\ runs[i].result.label = runs[j].result.label
            /\ runs[i].result.breakdown = runs[j].result.breakdown

C5_Witness ==
    /\ Len(runs) = 3
    /\ runs[1].idx = runs[3].idx /\ runs[2].idx # runs[1].idx
    /\ pages[runs[2].idx] # pages[runs[1].idx]
    /\ runs[1].day < runs[3].day
    /\ runs[1].freshness.status = "fresh" /\ runs[3].freshness.status = "stale"
    /\ runs[1].result.score >= 90

(***************************************************************************)
(* SITE-LEVEL SCORING                                                      *)
(* robots.txt is a sequence of lines; a line is a user-agent line, a       *)
(* disallow line or anything else.  A missing robots.txt and an empty one  *)
(* are both falsy and both the empty sequence.  llms.txt is a record: was  *)
(* a non-empty file fetched, the sections it has, and whether it is longer *)
(* than 50 characters.                                                     *)
(***************************************************************************)

UA(agent) == [kind |-> "user-agent", value |-> agent]
Disallow(path) == [kind |-> "disallow", value |-> path]
OtherLine == [kind |-> "other", value |-> ""]

HasText(t) == t # <<>>

NoLlmsTxt == [present |-> FALSE, sections |-> {}, long |-> FALSE]
LlmsTxt(sections, long) == [present |-> TRUE, sections |-> sections, long |-> long]

NoneBlocked == [oai |-> FALSE, gptbot |-> FALSE, chatgpt |-> FALSE, all |-> FALSE]

\* mutant: an Allow line for the root un-blocks the current user agent
CrawlerStepAllowUnblocks(st, line) ==
    IF line.kind = "user-agent" THEN [st EXCEPT !.agent = line.value]
    ELSE IF line.kind = "disallow" /\ line.value \in {"/", "/*"}
    THEN [st EXCEPT !.blocked =
            [all |-> st.blocked.all \/ st.agent \in {"*", ""},
             oai |-> st.blocked.oai \/ st.agent = "oai-searchbot",
             gptbot |-> st.blocked.gptbot \/ st.agent = "gptbot",
             chatgpt |-> st.blocked.chatgpt \/ st.agent = "chatgpt-user"]]
    ELSE IF line.kind = "allow" /\ line.value = "/"
    THEN [st EXCEPT !.blocked =
            [all |-> st.blocked.all /\ st.agent \notin {"*", ""},
             oai |-> st.blocked.oai /\ st.agent # "oai-searchbot",
             gptbot |-> st.blocked.gptbot /\ st.agent # "gptbot",
             chatgpt |-> st.blocked.chatgpt /\ st.agent # "chatgpt-user"]]
    ELSE st

\* one iteration of the loop over the lines: st = [agent, blocked]
CrawlerStep(st, line) ==
    IF line.kind = "user-agent" THEN [st EXCEPT !.agent = line.value]
    ELSE IF line.kind = "disallow" /\ line.value \in {"/", "/*"}
    THEN [st EXCEPT !.blocked =
            [all |-> st.blocked.all \/ st.agent \in {"*", ""},
             oai |-> st.blocked.oai \/ st.agent = "oai-searchbot",
             gptbot |-> st.blocked.gptbot \/ st.agent = "gptbot",
             chatgpt |-> st.blocked.chatgpt \/ st.agent = "chatgpt-user"]]
    ELSE st

RECURSIVE CrawlerLoop(_, _)
CrawlerLoop(st, lines) ==
    IF lines = <<>> THEN st ELSE CrawlerLoop(CrawlerStep(st, Head(lines)), Tail(lines))

\* mutant: a missing robots.txt denies every crawler
checkAICrawlerAccessDefaultDeny(robotsTxt) ==
    IF ~HasText(robotsTxt)
    THEN [allowsOAI |-> FALSE, allowsGPTBot |-> FALSE, allowsChatGPTUser |-> FALSE, hasRobotsTxt |-> FALSE]
    ELSE LET b == CrawlerLoop([agent |-> "", blocked |-> NoneBlocked], robotsTxt).blocked
         IN [allowsOAI |-> ~b.oai /\ ~b.all,
             allowsGPTBot |-> ~b.gptbot /\ ~b.all,
             allowsChatGPTUser |-> ~b.chatgpt /\ ~b.all,
             hasRobotsTxt |-> TRUE]

checkAICrawlerAccess(robotsTxt) ==
    IF ~HasText(robotsTxt)
    THEN [allowsOAI |-> TRUE, allowsGPTBot |-> TRUE, allowsChatGPTUser |-> TRUE, hasRobotsTxt |-> FALSE]
    ELSE LET b == CrawlerLoop([agent |-> "", blocked |-> NoneBlocked], robotsTxt).blocked
         IN [allowsOAI |-> ~b.oai /\ ~b.all,
             allowsGPTBot |-> ~b.gptbot /\ ~b.all,
             allowsChatGPTUser |-> ~b.chatgpt /\ ~b.all,
             hasRobotsTxt |-> TRUE]

LlmsSections == {"tagline", "products", "categories", "about", "keyPages"}

evaluateLlmsTxtQuality(content) ==
    IF Cardinality(content.sections) >= 4 THEN "complete"
    ELSE IF Cardinality(content.sections) >= 2 THEN "partial"
    ELSE "missing"

SiteLabel(total) ==
    IF total >= 80 THEN "Excellent" ELSE IF total >= 60 THEN "Good"
    ELSE IF total >= 40 THEN "Fair" ELSE "Poor"

\* mutant: the category points are not capped at 10
calculateSiteDiscoverabilityScoreUncapped(params) ==
    LET quality == IF params.llmsTxt.present THEN evaluateLlmsTxtQuality(params.llmsTxt) ELSE "missing"
        llmsPoints == IF ~params.llmsTxt.present THEN 0
                      ELSE IF quality = "complete" THEN 20
                      ELSE IF quality = "partial" THEN 12 ELSE 5
        crawlerScore == (IF params.aiCrawlerAccess.allowsOAI THEN 5 ELSE 0) +
                        (IF params.aiCrawlerAccess.allowsGPTBot THEN 5 ELSE 0) +
                        (IF params.aiCrawlerAccess.allowsChatGPTUser THEN 5 ELSE 0)
        sitemapPoints == IF ~params.hasSitemap THEN 0
                         ELSE IF params.sitemapProductCount > 100 THEN 15
                         ELSE IF params.sitemapProductCount > 20 THEN 10 ELSE 5
        org == params.organizationSchema
        orgScore == IF ~org.present THEN 0
                    ELSE (IF org.hasName THEN 5 ELSE 0) + (IF org.hasLogo THEN 4 ELSE 0) +
                         (IF org.hasSameAs THEN 4 ELSE 0) + (IF org.hasDescription THEN 2 ELSE 0)
        categoryPoints == IF Len(params.categories) > 0 THEN Len(params.categories) * 2 ELSE 0
        brandPoints == IF Len(params.brandVariations) = 1 THEN 10
                       ELSE IF Len(params.brandVariations) <= 3 THEN 5 ELSE 0
        techPoints == IF params.isHttps THEN 10 ELSE 0
        totalScore == llmsPoints + crawlerScore + sitemapPoints + orgScore +
                      categoryPoints + brandPoints + techPoints
    IN [score |-> Min(100, totalScore), max |-> 100, label |-> SiteLabel(totalScore),
        breakdown |->
          [llmsTxt |-> [points |-> llmsPoints, max |-> 20, present |-> params.llmsTxt.present,
                        hasContent |-> params.llmsTxt.long,
                        quality |-> quality],
           aiCrawlerAccess |-> [points |-> crawlerScore, max |-> 15,
                                allowsOAI |-> params.aiCrawlerAccess.allowsOAI,
                                allowsGPTBot |-> params.aiCrawlerAccess.allowsGPTBot,
                                allowsChatGPTUser |-> params.aiCrawlerAccess.allowsChatGPTUser,
                                hasRobotsTxt |-> params.aiCrawlerAccess.hasRobotsTxt],
           sitemap |-> [points |-> sitemapPoints, max |-> 15, present |-> params.hasSitemap,
                        productCount |-> params.sitemapProductCount],
           organizationSchema |-> [points |-> orgScore, max |-> 15, present |-> org.present],
           categoryPresence |-> [points |-> categoryPoints, max |-> 10,
                                 count |-> Len(params.categories)],
           brandConsistency |-> [points |-> brandPoints, max |-> 10,
                                 consistent |-> Len(params.brandVariations) <= 1],
           technicalHealth |-> [points |-> techPoints, max |-> 10, https |-> params.isHttps],
           externalMentions |-> [measurable |-> FALSE, importance |-> "high"],
           domainAuthority |-> [measurable |-> FALSE, importance |-> "medium"]]]

calculateSiteDiscoverabilityScore(params) ==
    LET quality == IF params.llmsTxt.present THEN evaluateLlmsTxtQuality(params.llmsTxt) ELSE "missing"
        llmsPoints == IF ~params.llmsTxt.present THEN 0
                      ELSE IF quality = "complete" THEN 20
                      ELSE IF quality = "partial" THEN 12 ELSE 5
        crawlerScore == (IF params.aiCrawlerAccess.allowsOAI THEN 5 ELSE 0) +
                        (IF params.aiCrawlerAccess.allowsGPTBot THEN 5 ELSE 0) +
                        (IF params.aiCrawlerAccess.allowsChatGPTUser THEN 5 ELSE 0)
        sitemapPoints == IF ~params.hasSitemap THEN 0
                         ELSE IF params.sitemapProductCount > 100 THEN 15
                         ELSE IF params.sitemapProductCount > 20 THEN 10 ELSE 5
        org == params.organizationSchema
        orgScore == IF ~org.present THEN 0
                    ELSE (IF org.hasName THEN 5 ELSE 0) + (IF org.hasLogo THEN 4 ELSE 0) +
                         (IF org.hasSameAs THEN 4 ELSE 0) + (IF org.hasDescription THEN 2 ELSE 0)
        categoryPoints == IF Len(params.categories) > 0 THEN Min(10, Len(params.categories) * 2) ELSE 0
        brandPoints == IF Len(params.brandVariations) = 1 THEN 10
                       ELSE IF Len(params.brandVariations) <= 3 THEN 5 ELSE 0
        techPoints == IF params.isHttps THEN 10 ELSE 0
        totalScore == llmsPoints + crawlerScore + sitemapPoints + orgScore +
                      categoryPoints + brandPoints + techPoints
    IN [score |-> Min(100, totalScore), max |-> 100, label |-> SiteLabel(totalScore),
        breakdown |->
          [llmsTxt |-> [points |-> llmsPoints, max |-> 20, present |-> params.llmsTxt.present,
                        hasContent |-> params.llmsTxt.long,
                        quality |-> quality],
           aiCrawlerAccess |-> [points |-> crawlerScore, max |-> 15,
                                allowsOAI |-> params.aiCrawlerAccess.allowsOAI,
                                allowsGPTBot |-> params.aiCrawlerAccess.allowsGPTBot,
                                allowsChatGPTUser |-> params.aiCrawlerAccess.allowsChatGPTUser,
                                hasRobotsTxt |-> params.aiCrawlerAccess.hasRobotsTxt],
           sitemap |-> [points |-> sitemapPoints, max |-> 15, present |-> params.hasSitemap,
                        productCount |-> params.sitemapProductCount],
           organizationSchema |-> [points |-> orgScore, max |-> 15, present |-> org.present],
           categoryPresence |-> [points |-> categoryPoints, max |-> 10,
                                 count |-> Len(params.categories)],
           brandConsistency |-> [points |-> brandPoints, max |-> 10,
                                 consistent |-> Len(params.brandVariations) <= 1],
           technicalHealth |-> [points |-> techPoints, max |-> 10, https |-> params.isHttps],
           externalMentions |-> [measurable |-> FALSE, importance |-> "high"],
           domainAuthority |-> [measurable |-> FALSE, importance |-> "medium"]]]

(***************************************************************************)
(* AGGREGATION                                                             *)
(***************************************************************************)

Count(ps, P(_)) == Len(SelectSeq(ps, P))

\* Math.round(a / b) for a >= 0 and b > 0: halves round up
RoundDiv(a, b) == (2 * a + b) \div (2 * b)

\* Math.round(scores.reduce((sum, s) => sum + s.score, 0) / scores.length)
MeanScore(scores) == RoundDiv(SumSeq(scores), Len(scores))

\* Math.round((x / total) * 100), 0 for an empty crawl
Percent(x, total) == IF total > 0 THEN RoundDiv(100 * x, total) ELSE 0

\* x / total >= 0.8 good, >= 0.5 warning, else poor; 0 / 0 is NaN and
\* compares false with everything
RatioStatus(x, total) ==
    IF total > 0 /\ 5 * x >= 4 * total THEN "good"
    ELSE IF total > 0 /\ 2 * x >= total THEN "warning"
    ELSE "poor"

Factor(name, sc, status) == [name |-> name, score |-> sc, status |-> status]
Recommendation(title, priority, affected) ==
    [title |-> title, priority |-> priority, affectedPages |-> affected]

\* Set.add keeps insertion order and drops repeats
AddUnique(acc, x) == IF \E i \in 1..Len(acc) : acc[i] = x THEN acc ELSE Append(acc, x)

RECURSIVE AddAll(_, _)
AddAll(acc, xs) == IF xs = <<>> THEN acc ELSE AddAll(AddUnique(acc, Head(xs)), Tail(xs))

\* title.split("|")[0].split("-")[0].trim(): the title up to its first
\* separator; the only token of the vocabulary with one is "pre-order"
RECURSIVE TitleBrand(_)
TitleBrand(title) ==
    IF title = <<>> THEN <<>>
    ELSE IF Head(title).kind = "phrase" /\ Head(title).sym = "pre-order" THEN <<Word("pre")>>
    ELSE <<Head(title)>> \o TitleBrand(Tail(title))

RECURSIVE Brands(_, _)
Brands(acc, ps) ==
    IF ps = <<>> THEN acc
    ELSE LET q == Head(ps)
             a1 == AddAll(acc, q.h1Texts)
             a2 == IF q.title # <<>> THEN AddUnique(a1, TitleBrand(q.title)) ELSE a1
         IN Brands(a2, Tail(ps))

RECURSIVE Categories(_, _)
Categories(acc, ps) ==
    IF ps = <<>> THEN acc ELSE Categories(AddAll(acc, Head(ps).breadcrumbs), Tail(ps))

\* pages.find(organization schema) || pages.find(homepage) || pages[0]
OrgPage(ps) ==
    LET org == SelectSeq(ps, LAMBDA q : q.schemas.hasOrganizationSchema)
        home == SelectSeq(ps, LAMBDA q : q.pageType = "homepage")
    IN IF org # <<>> THEN org[1] ELSE IF home # <<>> THEN home[1] ELSE ps[1]

AggregateFactors(ps, s) ==
    LET totalPages == Len(ps)
        productPages == Count(ps, LAMBDA q : q.schemas.hasProductSchema)
        reviewPages == Count(ps, LAMBDA q : q.reviews.hasReviews)
        pagesWithSchema == Count(ps, LAMBDA q : Len(q.jsonLdScripts) > 0)
        pagesWithMetaDesc == Count(ps, LAMBDA q : q.descLength >= 120)
        pagesWithProperH1 == Count(ps, LAMBDA q : q.headings.h1 = 1)
        pagesWithOG == Count(ps, LAMBDA q : q.ogKeys >= 4)
        pagesWithAltText == Count(ps, LAMBDA q : q.images.total = 0 \/ q.images.withoutAlt = 0)
    IN << Factor("Schema Coverage", Percent(pagesWithSchema, totalPages),
                 RatioStatus(pagesWithSchema, totalPages)),
          Factor("Product Schema", Percent(productPages, totalPages),
                 IF productPages > 0 THEN "good" ELSE "poor"),
          Factor("Review/Rating Schema", Percent(reviewPages, totalPages),
                 IF reviewPages > 0 THEN "good" ELSE "warning"),
          Factor("Meta Descriptions", Percent(pagesWithMetaDesc, totalPages),
                 RatioStatus(pagesWithMetaDesc, totalPages)),
          Factor("Open Graph Tags", Percent(pagesWithOG, totalPages),
                 RatioStatus(pagesWithOG, totalPages)),
          Factor("Heading Structure", Percent(pagesWithProperH1, totalPages),
                 RatioStatus(pagesWithProperH1, totalPages)),
          Factor("Image Alt Text", Percent(pagesWithAltText, totalPages),
                 RatioStatus(pagesWithAltText, totalPages)),
          Factor("robots.txt", IF HasText(s.robotsTxt) THEN 100 ELSE 0,
                 IF HasText(s.robotsTxt) THEN "good" ELSE "poor"),
          Factor("Sitemap", IF s.sitemapXml THEN 100 ELSE 0,
                 IF s.sitemapXml THEN "good" ELSE "warning"),
          Factor("llms.txt", IF s.llmsTxt.present THEN 100 ELSE 0,
                 IF s.llmsTxt.present THEN "good" ELSE "warning") >>

\* mutant: the product-schema entry is an "else if" of the structured-data entry
AggregateRecommendationsElseIf(ps, s) ==
    LET totalPages == Len(ps)
        productPages == Count(ps, LAMBDA q : q.schemas.hasProductSchema)
        organizationPages == Count(ps, LAMBDA q : q.schemas.hasOrganizationSchema)
        faqPages == Count(ps, LAMBDA q : q.schemas.hasFAQSchema)
        pagesWithoutSchema == totalPages - Count(ps, LAMBDA q : Len(q.jsonLdScripts) > 0)
        pagesWithMetaDesc == Count(ps, LAMBDA q : q.descLength >= 120)
        pagesWithProperH1 == Count(ps, LAMBDA q : q.headings.h1 = 1)
        pagesWithOG == Count(ps, LAMBDA q : q.ogKeys >= 4)
    IN (IF ~s.llmsTxt.present THEN <<Recommendation("Add llms.txt File", "high", 0)>> ELSE <<>>)
       \o (IF pagesWithoutSchema > 0
           THEN <<Recommendation("Add Structured Data to More Pages", "high", pagesWithoutSchema)>>
           ELSE <<>>)
       \o (IF pagesWithoutSchema = 0 /\ productPages = 0
           THEN <<Recommendation("Add Product Schema", "high", totalPages)>>
           ELSE <<>>)
       \o (IF organizationPages = 0 THEN <<Recommendation("Add Organization Schema", "medium", 1)>>
           ELSE <<>>)
       \o (IF pagesWithMetaDesc < totalPages
           THEN <<Recommendation("Improve Meta Descriptions", "high", totalPages - pagesWithMetaDesc)>>
           ELSE <<>>)
       \o (IF pagesWithProperH1 < totalPages
           THEN <<Recommendation("Fix Heading Structure", "medium", totalPages - pagesWithProperH1)>>
           ELSE <<>>)
       \o (IF faqPages = 0 THEN <<Recommendation("Add FAQ Schema", "medium", 0)>> ELSE <<>>)
       \o (IF pagesWithOG < totalPages
           THEN <<Recommendation("Add Open Graph Tags", "low", totalPages - pagesWithOG)>>
           ELSE <<>>)

AggregateRecommendations(ps, s) ==
    LET totalPages == Len(ps)
        productPages == Count(ps, LAMBDA q : q.schemas.hasProductSchema)
        organizationPages == Count(ps, LAMBDA q : q.schemas.hasOrganizationSchema)
        faqPages == Count(ps, LAMBDA q : q.schemas.hasFAQSchema)
        pagesWithoutSchema == totalPages - Count(ps, LAMBDA q : Len(q.jsonLdScripts) > 0)
        pagesWithMetaDesc == Count(ps, LAMBDA q : q.descLength >= 120)
        pagesWithProperH1 == Count(ps, LAMBDA q : q.headings.h1 = 1)
        pagesWithOG == Count(ps, LAMBDA q : q.ogKeys >= 4)
    IN (IF ~s.llmsTxt.present THEN <<Recommendation("Add llms.txt File", "high", 0)>> ELSE <<>>)
       \o (IF pagesWithoutSchema > 0
           THEN <<Recommendation("Add Structured Data to More Pages", "high", pagesWithoutSchema)>>
           ELSE <<>>)
       \o (IF productPages = 0 THEN <<Recommendation("Add Product Schema", "high", totalPages)>>
           ELSE <<>>)
       \o (IF organizationPages = 0 THEN <<Recommendation("Add Organization Schema", "medium", 1)>>
           ELSE <<>>)
       \o (IF pagesWithMetaDesc < totalPages
           THEN <<Recommendation("Improve Meta Descriptions", "high", totalPages - pagesWithMetaDesc)>>
           ELSE <<>>)
       \o (IF pagesWithProperH1 < totalPages
           THEN <<Recommendation("Fix Heading Structure", "medium", totalPages - pagesWithProperH1)>>
           ELSE <<>>)
       \o (IF faqPages = 0 THEN <<Recommendation("Add FAQ Schema", "medium", 0)>> ELSE <<>>)
       \o (IF pagesWithOG < totalPages
           THEN <<Recommendation("Add Open Graph Tags", "low", totalPages - pagesWithOG)>>
           ELSE <<>>)

\* /\/[a-z0-9]+\/p-[a-z0-9]+/ of detectUrlType: the first segment has no hyphen
PlainDirSeg(seg) == MyntraDirSeg(seg) /\ seg \notin {"product-x", "search-results"}

detectUrlType(u) ==
    IF IsRootPath(u) THEN "domain"
    ELSE IF \/ \E i \in 1..Len(u.path) : ProductDirSeg(u.path[i]) /\ Closed(u, i)
            \/ \E i \in 1..Len(u.path) : ProductDashSeg(u.path[i])
            \/ \E i \in 1..(Len(u.path) - 1) : PlainDirSeg(u.path[i]) /\ MyntraItemSeg(u.path[i + 1])
         THEN "product"
    ELSE IF \E i \in 1..Len(u.path) :
                CollectionDirSeg(u.path[i]) /\ u.path[i] # "department" /\ Closed(u, i)
         THEN "collection"
    ELSE "domain"

\* the page scorer the aggregation calls
calculateProductExtractabilityScore(p) == calculateExtractabilityScore(p)

Threw == [threw |-> TRUE]

\* s holds the crawl-level arguments: robotsTxt, sitemapXml (found or not),
\* sitemapUrls (their number) and llmsTxt
aggregateResults(ps, s) ==
    IF ps = <<>>
    THEN \* pages[0] is undefined: the fallback hands it to the page scorer and
         \* detectUrlType("") calls new URL(""), which throws
         Threw
    ELSE
    LET orgPage == OrgPage(ps)
        brands == SelectSeq(Brands(<<>>, ps), LAMBDA b : b # <<>>)
        siteDiscoverability == calculateSiteDiscoverabilityScore(
            [llmsTxt |-> s.llmsTxt,
             aiCrawlerAccess |-> checkAICrawlerAccess(s.robotsTxt),
             hasSitemap |-> s.sitemapXml,
             sitemapProductCount |-> s.sitemapUrls,
             organizationSchema |->
                [present |-> orgPage.schemas.hasOrganizationSchema,
                 hasName |-> orgPage.title # <<>>,
                 hasLogo |-> orgPage.ogImage,
                 hasSameAs |-> FALSE,
                 hasDescription |-> orgPage.descLength > 0],
             categories |-> Categories(<<>>, ps),
             brandVariations |-> SubSeq(brands, 1, Min(5, Len(brands))),
             isHttps |-> ps[1].url.https])
        productPageList == SelectSeq(ps, LAMBDA q : q.pageType = "product")
        scores == [i \in 1..Len(productPageList) |->
                        calculateProductExtractabilityScore(productPageList[i])]
        firstPageScore == calculateProductExtractabilityScore(ps[1])
        productExtractabilityScore ==
            IF Len(productPageList) > 0
            THEN MeanScore([i \in 1..Len(scores) |-> scores[i].score])
            ELSE firstPageScore.score
        urlType == detectUrlType(ps[1].url)
    IN [threw |-> FALSE,
        totalPages |-> Len(ps),
        siteDiscoverabilityScore |-> siteDiscoverability.score,
        siteDiscoverabilityBreakdown |-> siteDiscoverability.breakdown,
        productExtractabilityScore |-> productExtractabilityScore,
        productExtractabilityBreakdown |->
            IF Len(productPageList) > 0 THEN scores[1].breakdown ELSE firstPageScore.breakdown,
        analyzedUrlType |-> urlType,
        analyzedSingleProduct |-> urlType = "product" /\ Len(ps) = 1,
        aggregateScore |-> (siteDiscoverability.score + productExtractabilityScore + 1) \div 2,
        aggregateFactors |-> AggregateFactors(ps, s),
        aggregateRecommendations |-> AggregateRecommendations(ps, s)]

(***************************************************************************)
(* SPECIFICATION SpecAgg: aggregateResults on the pages a crawl collected  *)
(* (none, when every fetch failed) and the crawl-level files.              *)
(***************************************************************************)

MaxPages == 2

PlainObj(type) == SchemaObj(type, FALSE, NoNum, FALSE, 0, 0, 0, NoIds)
NoSchemas == [prod |-> FALSE, offer |-> FALSE, agg |-> FALSE, bcl |-> FALSE]
Insecure(u) == [u EXCEPT !.https = FALSE]

AggSignals ==
    { [SignalsOf(U(<<>>), NoSchemas, HiChoice) EXCEPT !.jsonLd = <<PlainObj("Organization")>>],
      SignalsOf(U(<<"products", "view">>), AllSchemas, HiChoice),
      SignalsOf(U(<<"products", "view">>), NoSchemas, Merge(LoChoice, [title |-> <<T>>])),
      [SignalsOf(U(<<"products", "p-1">>), NoSchemas, Merge(LoChoice, [desc |-> 120]))
            EXCEPT !.jsonLd = <<>>],
      SignalsOf(U(<<"collections", "view">>), AllSchemas, HiChoice),
      [SignalsOf(Insecure(U(<<"view">>)), NoSchemas, LoChoice) EXCEPT !.jsonLd = <<PlainObj("FAQPage")>>] }

AggPages == {analyzePage(sg, 0) : sg \in AggSignals}

RobotsChoices == {<<>>,
                  <<UA("*"), Disallow("")>>,
                  <<UA("gptbot"), Disallow("/")>>,
                  <<UA("*"), Disallow("/"), OtherLine>>}
LlmsChoices == {NoLlmsTxt,
                LlmsTxt({}, FALSE),
                LlmsTxt({"tagline", "products"}, TRUE),
                LlmsTxt(LlmsSections, TRUE)}
\* sitemapXml is the first sitemap that could be fetched, so it needs one
SitemapChoices == {[xml |-> FALSE, urls |-> 0], [xml |-> FALSE, urls |-> 1],
                   [xml |-> TRUE, urls |-> 1], [xml |-> TRUE, urls |-> 21]}

SiteChoices == {[robotsTxt |-> r, llmsTxt |-> l, sitemapXml |-> m.xml, sitemapUrls |-> m.urls] :
                    r \in RobotsChoices, l \in LlmsChoices, m \in SitemapChoices}

InitAgg ==
    /\ pc = "crawled"
    /\ pages \in UNION {[1..n -> AggPages] : n \in 0..MaxPages}
    /\ site \in SiteChoices
    /\ agg = NoResult
    /\ page = Idle /\ score = NoResult
    /\ url = Idle /\ flags = Idle /\ pageType = Null
    /\ clock = 0 /\ runs = <<>>
    /\ crawl = Idle
    /\ gen = Idle

Aggregate ==
    /\ pc = "crawled"
    /\ agg' = aggregateResults(pages, site)
    /\ pc' = "aggregated"
    /\ UNCHANGED <<url, flags, pageType, page, score, clock, runs, pages, site, crawl, gen>>

NextAgg == Aggregate

SpecAgg == InitAgg /\ [][NextAgg]_vars

\* C6: aggregating zero pages does not throw and returns score 0 with empty
\* factor and recommendation lists
C6_EmptyCrawlDegrades ==
    (pc = "aggregated" /\ pages = <<>>) =>
        /\ ~agg.threw
        /\ agg.aggregateScore = 0
        /\ agg.aggregateFactors = <<>>
        /\ agg.aggregateRecommendations = <<>>

ProductPagesOf(ps) == SelectSeq(ps, LAMBDA q : q.pageType = "product")
PageScores(ps) == [i \in 1..Len(ps) |-> calculateExtractabilityScore(ps[i]).score]

\* m is the mean of scores rounded to the nearest integer, halves up
IsRoundedMean(m, scores) ==
    /\ 2 * Len(scores) * m - Len(scores) <= 2 * SumSeq(scores)
    /\ 2 * SumSeq(scores) < 2 * Len(scores) * m + Len(scores)

\* C10: every aggregation yields a product extractability score - the rounded
\* mean of the page scores of the product pages, or the page score of the first
\* page when there is none - and aggregateScore is the rounded mean of the
\* site and product scores, within 0..100
C10_HeadlineScores ==
    pc = "aggregated" =>
        /\ ~agg.threw
        /\ IF ProductPagesOf(pages) # <<>>
           THEN IsRoundedMean(agg.productExtractabilityScore, PageScores(ProductPagesOf(pages)))
           ELSE agg.productExtractabilityScore = calculateExtractabilityScore(pages[1]).score
        /\ IsRoundedMean(agg.aggregateScore,
                         <<agg.siteDiscoverabilityScore, agg.productExtractabilityScore>>)
        /\ agg.aggregateScore \in 0..100

(***************************************************************************)
(* THE CRAWL OF POST /api/analyze                                          *)
(* The request handler walks pageUrls: a URL already seen is skipped, the  *)
(* others are fetched (following redirects to a resolved URL) and analysed *)
(* inside a try/catch.  A crawl that started on a domain URL and found no  *)
(* product page then tries up to five product links.  The pages collected  *)
(* go to aggregateResults; an exception there is caught by the handler's   *)
(* outer catch, which answers 500.                                         *)
(***************************************************************************)

MaxUrls == 3

HomeUrl == U(<<>>)
ProductUrl == U(<<"products", "view">>)
ShopUrl == U(<<"shop", "view">>)
ViewUrl == U(<<"view">>)
CrawlUrls == {HomeUrl, ProductUrl, ShopUrl, ViewUrl}

\* what the site serves at a URL
ServedAt(u) == SignalsOf(u, NoSchemas, Merge(LoChoice, [title |-> <<T>>]))

\* productPatterns of discoverProductPageLinks: the product patterns plus
\* /\/shop\// and /\/buy\//
ProductLinkPattern(u) ==
    \/ MatchesProductPatterns(u)
    \/ \E i \in 1..Len(u.path) : u.path[i] \in {"shop", "buy"} /\ Closed(u, i)

\* [...new Set(xs)]
Dedupe(xs) == AddAll(<<>>, xs)

\* knownLinks are the links of the first analysed page; fetchedLinks are the
\* links scraped from a fresh fetch of the base URL when none of them matches
discoverProductPageLinks(knownLinks, fetchedLinks) ==
    LET known == SelectSeq(knownLinks, ProductLinkPattern)
    IN Dedupe(IF known # <<>> THEN known ELSE SelectSeq(fetchedLinks, ProductLinkPattern))

DistinctSeqs(S, n) == {q \in UNION {[1..k -> S] : k \in 1..n} :
                            \A i, j \in 1..Len(q) : i # j => q[i] # q[j]}

\* the links of the first analysed page, and those of a fresh fetch
KnownLinkLists == {<<>>, <<ViewUrl>>, <<ShopUrl, ProductUrl, ShopUrl>>}
FetchedLinkLists == {<<>>, <<ViewUrl, ProductUrl>>}

\* where a fetch of u can end: at u itself or, after a redirect, at the
\* product page
ResolvedUrls(u) == {u, ProductUrl}

DEFAULT_MAX_PAGES == 100
MAX_PAGES_HARD_LIMIT == 1000

\* the maxPages of the request body; 0 stands for an absent or zero value
MaxPagesChoices == {0, 1, 2}

\* Math.min(maxPages || DEFAULT_MAX_PAGES, MAX_PAGES_HARD_LIMIT)
PageLimit(maxPages) ==
    Min(IF maxPages # 0 THEN maxPages ELSE DEFAULT_MAX_PAGES, MAX_PAGES_HARD_LIMIT)

\* urls is the deduplicated list discoverPages collected, the base URL first:
\* it is cut to the limit, and the final URL is prepended when the cut list
\* does not hold it
PageUrls(urls, finalUrl, limit) ==
    LET cut == SubSeq(urls, 1, Min(limit, Len(urls)))
    IN IF \E i \in 1..Len(cut) : cut[i] = finalUrl THEN cut ELSE <<finalUrl>> \o cut

CrawlSite == [robotsTxt |-> <<>>, llmsTxt |-> NoLlmsTxt, sitemapXml |-> FALSE, sitemapUrls |-> 0]

InitCrawl ==
    /\ pc = "crawl"
    /\ \E q \in DistinctSeqs(CrawlUrls, MaxUrls), kl \in KnownLinkLists, fl \in FetchedLinkLists,
          mp \in MaxPagesChoices :
          crawl = [pageLimit |-> PageLimit(mp),
                   pageUrls |-> PageUrls(q, q[1], PageLimit(mp)),
                   finalUrl |-> q[1], knownLinks |-> kl, fetchedLinks |-> fl,
                   idx |-> 1, productLinks |-> <<>>, seenUrls |-> {}, log |-> <<>>, status |-> 0]
    /\ pages = <<>>
    /\ site = CrawlSite
    /\ agg = NoResult
    /\ page = Idle /\ score = NoResult
    /\ url = Idle /\ flags = Idle /\ pageType = Null
    /\ clock = 0 /\ runs = <<>>
    /\ gen = Idle

LogEntry(u, phase, outcome, resolved) ==
    [url |-> u, phase |-> phase, outcome |-> outcome, resolved |-> resolved]

\* one iteration of "for (const pageUrl of pageUrls)" whose URL was seen
CrawlSkip ==
    /\ pc = "crawl" /\ crawl.idx <= Len(crawl.pageUrls)
    /\ crawl.pageUrls[crawl.idx] \in crawl.seenUrls
    /\ crawl' = [crawl EXCEPT !.idx = @ + 1,
                              !.log = Append(@, LogEntry(crawl.pageUrls[crawl.idx], "crawl", "skipped", Idle))]
    /\ UNCHANGED <<pc, url, flags, pageType, page, score, clock, runs, pages, site, agg, gen>>

\* one iteration whose fetch or analysis throws: the catch logs and goes on
CrawlFail ==
    /\ pc = "crawl" /\ crawl.idx <= Len(crawl.pageUrls)
    /\ crawl.pageUrls[crawl.idx] \notin crawl.seenUrls
    /\ crawl' = [crawl EXCEPT !.idx = @ + 1,
                              !.seenUrls = @ \cup {crawl.pageUrls[crawl.idx]},
                              !.log = Append(@, LogEntry(crawl.pageUrls[crawl.idx], "crawl", "failed", Idle))]
    /\ UNCHANGED <<pc, url, flags, pageType, page, score, clock, runs, pages, site, agg, gen>>

\* one iteration whose fetch resolves to r and whose page is analysed
CrawlOk(r) ==
    /\ pc = "crawl" /\ crawl.idx <= Len(crawl.pageUrls)
    /\ crawl.pageUrls[crawl.idx] \notin crawl.seenUrls
    /\ r \in ResolvedUrls(crawl.pageUrls[crawl.idx])
    /\ pages' = Append(pages, analyzePage(ServedAt(r), clock))
    /\ crawl' = [crawl EXCEPT !.idx = @ + 1,
                              !.seenUrls = @ \cup {crawl.pageUrls[crawl.idx], r},
                              !.log = Append(@, LogEntry(crawl.pageUrls[crawl.idx], "crawl", "ok", r))]
    /\ UNCHANGED <<pc, url, flags, pageType, page, score, clock, runs, site, agg, gen>>

\* after the loop: decide whether product pages have to be discovered
EndCrawl ==
    /\ pc = "crawl" /\ crawl.idx > Len(crawl.pageUrls)
    /\ LET discover == /\ detectUrlType(crawl.finalUrl) = "domain"
                       /\ ~\E i \in 1..Len(pages) : pages[i].pageType = "product"
                       /\ Len(pages) > 0
           links == discoverProductPageLinks(crawl.knownLinks, crawl.fetchedLinks)
       IN crawl' = [crawl EXCEPT !.idx = 1,
                                 !.productLinks = IF discover
                                                  THEN SubSeq(links, 1, Min(5, Len(links)))
                                                  ELSE <<>>]
    /\ pc' = "discover"
    /\ UNCHANGED <<url, flags, pageType, page, score, clock, runs, pages, site, agg, gen>>

DiscoverSkip ==
    /\ pc = "discover" /\ crawl.idx <= Len(crawl.productLinks)
    /\ crawl.productLinks[crawl.idx] \in crawl.seenUrls
    /\ crawl' = [crawl EXCEPT !.idx = @ + 1,
                              !.log = Append(@, LogEntry(crawl.productLinks[crawl.idx], "discover", "skipped", Idle))]
    /\ UNCHANGED <<pc, url, flags, pageType, page, score, clock, runs, pages, site, agg, gen>>

DiscoverFail ==
    /\ pc = "discover" /\ crawl.idx <= Len(crawl.productLinks)
    /\ crawl.productLinks[crawl.idx] \notin crawl.seenUrls
    /\ crawl' = [crawl EXCEPT !.idx = @ + 1,
                              !.seenUrls = @ \cup {crawl.productLinks[crawl.idx]},
                              !.log = Append(@, LogEntry(crawl.productLinks[crawl.idx], "discover", "failed", Idle))]
    /\ UNCHANGED <<pc, url, flags, pageType, page, score, clock, runs, pages, site, agg, gen>>

\* a discovered page is kept only when it is classified product
DiscoverOk(r) ==
    /\ pc = "discover" /\ crawl.idx <= Len(crawl.productLinks)
    /\ crawl.productLinks[crawl.idx] \notin crawl.seenUrls
    /\ r \in ResolvedUrls(crawl.productLinks[crawl.idx])
    /\ LET analysis == analyzePage(ServedAt(r), clock)
       IN pages' = IF analysis.pageType = "product" THEN Append(pages, analysis) ELSE pages
    /\ crawl' = [crawl EXCEPT !.idx = @ + 1,
                              !.seenUrls = @ \cup {crawl.productLinks[crawl.idx], r},
                              !.log = Append(@, LogEntry(crawl.productLinks[crawl.idx], "discover", "ok", r))]
    /\ UNCHANGED <<pc, url, flags, pageType, page, score, clock, runs, site, agg, gen>>

\* aggregateResults(pages, ...) and the response: 200 with the analysis, or
\* 500 from the outer catch when the aggregation throws
Respond ==
    /\ pc = "discover" /\ crawl.idx > Len(crawl.productLinks)
    /\ agg' = aggregateResults(pages, site)
    /\ crawl' = [crawl EXCEPT !.status = IF agg'.threw THEN 500 ELSE 200]
    /\ pc' = "responded"
    /\ UNCHANGED <<url, flags, pageType, page, score, clock, runs, pages, site, gen>>

NextCrawl ==
    \/ CrawlSkip \/ CrawlFail \/ EndCrawl
    \/ (\E r \in CrawlUrls : CrawlOk(r))
    \/ DiscoverSkip \/ DiscoverFail \/ Respond
    \/ (\E r \in CrawlUrls : DiscoverOk(r))

SpecCrawl == InitCrawl /\ [][NextCrawl]_vars

\* the pages the logged outcomes account for: every page URL that was fetched
\* and analysed, then every discovered link whose page is a product page
RECURSIVE PagesOfLog(_)
PagesOfLog(log) ==
    IF log = <<>> THEN <<>>
    ELSE LET e == Head(log)
             kept == /\ e.outcome = "ok"
                     /\ e.phase = "discover" =>
                            detectPageType(e.resolved, SchemaFlags(ServedAt(e.resolved).jsonLd)) = "product"
         IN (IF kept THEN <<analyzePage(ServedAt(e.resolved), 0)>> ELSE <<>>) \o PagesOfLog(Tail(log))

CrawlLog == SelectSeq(crawl.log, LAMBDA e : e.phase = "crawl")

\* C11: a failing page URL never aborts the request: the request is answered
\* with an analysis, a failed URL contributes no page, every page URL is
\* handled in order, and the aggregation runs over exactly the pages analysed
C11_FailureDoesNotAbort ==
    pc = "responded" =>
        /\ crawl.status = 200
        /\ ~agg.threw
        /\ [i \in 1..Len(CrawlLog) |-> CrawlLog[i].url] = crawl.pageUrls
        /\ pages = PagesOfLog(crawl.log)
        /\ agg.totalPages = Len(PagesOfLog(crawl.log))

(***************************************************************************)
(* Properties of the recommendation list and the factor rows               *)
(***************************************************************************)

RecommendationOrder ==
    <<"Add llms.txt File", "Add Structured Data to More Pages", "Add Product Schema",
      "Add Organization Schema", "Improve Meta Descriptions", "Fix Heading Structure",
      "Add FAQ Schema", "Add Open Graph Tags">>

\* the condition of one entry, read off the pages and the crawl-level files
RecommendationDue(title) ==
    CASE title = "Add llms.txt File" -> ~site.llmsTxt.present
      [] title = "Add Structured Data to More Pages" ->
            \E i \in 1..Len(pages) : Len(pages[i].jsonLdScripts) = 0
      [] title = "Add Product Schema" ->
            \A i \in 1..Len(pages) : ~pages[i].schemas.hasProductSchema
      [] title = "Add Organization Schema" ->
            \A i \in 1..Len(pages) : ~pages[i].schemas.hasOrganizationSchema
      [] title = "Improve Meta Descriptions" ->
            \E i \in 1..Len(pages) : pages[i].descLength < 120
      [] title = "Fix Heading Structure" ->
            \E i \in 1..Len(pages) : pages[i].headings.h1 # 1
      [] title = "Add FAQ Schema" ->
            \A i \in 1..Len(pages) : ~pages[i].schemas.hasFAQSchema
      [] title = "Add Open Graph Tags" ->
            \E i \in 1..Len(pages) : pages[i].ogKeys < 4

Titles(recs) == [i \in 1..Len(recs) |-> recs[i].title]

\* C12: the recommendation list holds, in the fixed order, exactly the entries
\* whose own condition holds; no entry depends on another entry's condition
C12_RecommendationsIndependent ==
    pc = "aggregated" =>
        /\ Titles(AggregateRecommendations(pages, site)) =
                SelectSeq(RecommendationOrder, RecommendationDue)
        /\ ~agg.threw =>
                agg.aggregateRecommendations = AggregateRecommendations(pages, site)

\* all eight entries together
C12_Witness ==
    /\ pc = "aggregated" /\ ~agg.threw
    /\ Titles(agg.aggregateRecommendations) = RecommendationOrder

PercentRows ==
    {"Schema Coverage", "Product Schema", "Review/Rating Schema", "Meta Descriptions",
     "Open Graph Tags", "Heading Structure", "Image Alt Text"}

Band(sc) == IF sc >= 80 THEN "good" ELSE IF sc >= 50 THEN "warning" ELSE "poor"

\* C13: every percentage-based factor row has status good at a score of 80 or
\* more, warning from 50 to 79 and poor below 50
C13_PercentRowsFollowBands ==
    (pc = "aggregated" /\ ~agg.threw) =>
        \A i \in 1..Len(agg.aggregateFactors) :
            agg.aggregateFactors[i].name \in PercentRows =>
                agg.aggregateFactors[i].status = Band(agg.aggregateFactors[i].score)

(***************************************************************************)
(* SPECIFICATION SpecSite: checkAICrawlerAccess on a robots.txt and the    *)
(* site scorer on its result, as aggregateResults chains them.  The        *)
(* robots.txt is absent or any text of up to MaxRobotsLines lines.         *)
(***************************************************************************)

MaxRobotsLines == 3

RobotsLines ==
    {UA("*"), UA(""), UA("gptbot"), UA("oai-searchbot"), UA("chatgpt-user"), UA("bingbot"),
     Disallow("/"), Disallow("/*"), Disallow("/private"), OtherLine}

RobotsTexts == UNION {[1..n -> RobotsLines] : n \in 0..MaxRobotsLines}

InitSite ==
    /\ pc = "fetched"
    /\ site \in [robotsTxt : RobotsTexts, llmsTxt : LlmsChoices,
                 sitemapXml : {FALSE}, sitemapUrls : {0}, isHttps : BOOLEAN]
    /\ flags = Idle /\ score = NoResult
    /\ agg = NoResult /\ page = Idle /\ pages = <<>>
    /\ url = Idle /\ pageType = Null
    /\ clock = 0 /\ runs = <<>>
    /\ crawl = Idle
    /\ gen = Idle

\* flags holds the crawler permissions read from robots.txt
CheckCrawlerAccess ==
    /\ pc = "fetched"
    /\ flags' = checkAICrawlerAccess(site.robotsTxt)
    /\ pc' = "checked"
    /\ UNCHANGED <<url, pageType, page, score, clock, runs, pages, site, agg, crawl, gen>>

ScoreSite ==
    /\ pc = "checked"
    /\ score' = calculateSiteDiscoverabilityScore(
            [llmsTxt |-> site.llmsTxt,
             aiCrawlerAccess |-> flags,
             hasSitemap |-> site.sitemapXml,
             sitemapProductCount |-> site.sitemapUrls,
             organizationSchema |-> [present |-> FALSE, hasName |-> FALSE, hasLogo |-> FALSE,
                                     hasSameAs |-> FALSE, hasDescription |-> FALSE],
             categories |-> <<>>,
             brandVariations |-> <<>>,
             isHttps |-> site.isHttps])
    /\ pc' = "siteScored"
    /\ UNCHANGED <<url, flags, pageType, page, clock, runs, pages, site, agg, crawl, gen>>

NextSite == CheckCrawlerAccess \/ ScoreSite

SpecSite == InitSite /\ [][NextSite]_vars

\* C14: without llms.txt and without robots.txt the breakdown shows 15
\* crawler-access points with all three crawlers allowed, and 0 manifest
\* points with quality "missing" and present false
C14_NoManifestNoRobots ==
    (pc = "siteScored" /\ ~site.llmsTxt.present /\ ~HasText(site.robotsTxt)) =>
        /\ score.breakdown.aiCrawlerAccess.points = 15
        /\ score.breakdown.aiCrawlerAccess.allowsOAI
        /\ score.breakdown.aiCrawlerAccess.allowsGPTBot
        /\ score.breakdown.aiCrawlerAccess.allowsChatGPTUser
        /\ score.breakdown.llmsTxt.points = 0
        /\ score.breakdown.llmsTxt.quality = "missing"
        /\ score.breakdown.llmsTxt.present = FALSE

C14_Witness ==
    /\ pc = "siteScored" /\ site.llmsTxt = NoLlmsTxt /\ site.robotsTxt = <<>>
    /\ score.breakdown.aiCrawlerAccess.points = 15
    /\ score.breakdown.llmsTxt.quality = "missing"

\* the user-agent lines that head the block of line i: the latest user-agent
\* line before i and the user-agent lines directly above it
BlockHeads(lines, i) ==
    LET agents == {j \in 1..(i - 1) : lines[j].kind = "user-agent"}
    IN IF agents = {} THEN {}
       ELSE LET last == CHOOSE j \in agents : \A k \in agents : k <= j
            IN {j \in 1..last : \A k \in j..last : lines[k].kind = "user-agent"}

BlockNames(lines, i) == {lines[j].value : j \in BlockHeads(lines, i)}

\* some "Disallow: /" or "Disallow: /*" stands in a block naming the agent
DisallowedFor(lines, agent) ==
    \E i \in 1..Len(lines) :
        /\ lines[i].kind = "disallow" /\ lines[i].value \in {"/", "/*"}
        /\ agent \in BlockNames(lines, i)

CrawlerAllowed(lines, agent) == ~DisallowedFor(lines, agent) /\ ~DisallowedFor(lines, "*")

AllowedCount(a) ==
    (IF a.allowsOAI THEN 1 ELSE 0) + (IF a.allowsGPTBot THEN 1 ELSE 0) +
    (IF a.allowsChatGPTUser THEN 1 ELSE 0)

\* C19: each of the three crawlers is decided on its own, blocked exactly
\* when a "Disallow: /" or "Disallow: /*" stands in a block naming it or in
\* a "User-agent: *" block, and the scorer awards 5 points per allowed crawler
C19_CrawlersIndependent ==
    pc = "siteScored" =>
        /\ flags.allowsOAI = CrawlerAllowed(site.robotsTxt, "oai-searchbot")
        /\ flags.allowsGPTBot = CrawlerAllowed(site.robotsTxt, "gptbot")
        /\ flags.allowsChatGPTUser = CrawlerAllowed(site.robotsTxt, "chatgpt-user")
        /\ score.breakdown.aiCrawlerAccess.points = 5 * AllowedCount(flags)

(***************************************************************************)
(* SCHEMA GENERATION                                                       *)
(* The generated Product object is a JSON-LD object as analyzePage reads   *)
(* them, with the name it was given.                                       *)
(***************************************************************************)

\* page.title?.toLowerCase().includes("product")
TitleNamesProduct(title) == \E i \in 1..Len(title) : title[i] = Word("product")

\* page.url.includes("/product")
UrlNamesProduct(u) == \E i \in 1..Len(u.path) : u.path[i] \in {"products", "product-x"}

\* fieldsMissing.length === 0 ? "high" : fieldsMissing.length <= 2 ? "medium" : "low"
SnippetConfidence(fieldsMissing) ==
    IF Len(fieldsMissing) = 0 THEN "high"
    ELSE IF Len(fieldsMissing) <= 2 THEN "medium" ELSE "low"

generateProductSchemaFromPage(p) ==
    LET price == p.contentExtraction.price.value
        rated == p.reviews.hasReviews /\ Truthy(p.reviews.averageRating)
        fieldsMissing == (IF p.title # <<>> THEN <<>> ELSE <<"name">>)
                         \o (IF p.descLength > 0 THEN <<>> ELSE <<"description">>)
                         \o (IF p.ogImage THEN <<>> ELSE <<"image">>)
                         \o (IF Truthy(price) THEN <<>> ELSE <<"price">>)
    IN [type |-> "Product",
        jsonLd |->
          [type |-> "Product",
           name |-> p.title,
           hasOffers |-> Truthy(price),
           offerPrice |-> IF Truthy(price) THEN price ELSE NoNum,
           priceCurrency |-> IF ~Truthy(price) THEN Null
                             ELSE IF p.contentExtraction.price.currency # Null
                             THEN p.contentExtraction.price.currency ELSE "USD",
           hasAgg |-> rated,
           ratingValue |-> IF rated THEN p.reviews.averageRating ELSE 0,
           ratingCount |-> IF ~rated THEN 0
                           ELSE IF p.reviews.ratingCount # 0 THEN p.reviews.ratingCount
                           ELSE p.reviews.reviewCount,
           reviewN |-> 0,
           ids |-> NoIds],
        confidence |-> SnippetConfidence(fieldsMissing),
        fieldsMissing |-> fieldsMissing]

\* null (no snippet) for a URL without path segments
generateBreadcrumbSchemaFromPage(p) ==
    IF p.url.path = <<>> THEN <<>>
    ELSE << [type |-> "BreadcrumbList",
             jsonLd |-> [type |-> "BreadcrumbList",
                         items |-> <<"Home">> \o [i \in 1..Len(p.url.path) |-> TitleCase(p.url.path[i])]],
             confidence |-> "high",
             fieldsMissing |-> <<>>] >>

\* null (no snippet) without quote-ready snippets
generateFAQSchemaFromPage(p) ==
    IF p.quoteReadySnippets = 0 THEN <<>>
    ELSE << [type |-> "FAQPage",
             jsonLd |-> [type |-> "FAQPage", items |-> Min(5, p.quoteReadySnippets)],
             confidence |-> "low",
             fieldsMissing |-> <<>>] >>

generateSchemaForPage(p) ==
    (IF p.schemas.hasProductSchema \/ TitleNamesProduct(p.title) \/ UrlNamesProduct(p.url)
     THEN <<generateProductSchemaFromPage(p)>> ELSE <<>>)
    \o generateBreadcrumbSchemaFromPage(p)
    \o (IF p.schemas.hasFAQSchema \/ p.quoteReadySnippets >= 3
        THEN generateFAQSchemaFromPage(p) ELSE <<>>)

(***************************************************************************)
(* SPECIFICATION SpecRoundTrip: a page is analysed, its Product object is  *)
(* generated, and the object is analysed again as the structured data of   *)
(* the same page or of a page that has nothing else.                       *)
(***************************************************************************)

RoundTripSignals ==
    {[SignalsOf(u, sc, Merge(b, [title |-> t])) EXCEPT !.quoteSentences = q] :
        u \in {U(<<>>), U(<<"products", "view">>), U(<<"view">>)},
        sc \in {NoSchemas, AllSchemas},
        b \in {LoChoice, HiChoice},
        t \in TitleTexts,
        q \in {0, 3}}
    \cup {[SignalsOf(U(<<"view">>), NoSchemas, LoChoice)
                EXCEPT !.jsonLd = <<PlainObj("FAQPage")>>, !.quoteSentences = q] : q \in {0, 2, 6}}

InitRoundTrip ==
    /\ pc = "fetched"
    /\ \E sg \in RoundTripSignals : gen = [sig |-> sg, schemas |-> <<>>, host |-> sg]
    /\ page = Idle /\ score = NoResult
    /\ agg = NoResult /\ pages = <<>> /\ site = Idle
    /\ url = Idle /\ flags = Idle /\ pageType = Null
    /\ clock = 0 /\ runs = <<>>
    /\ crawl = Idle

AnalyseOriginal ==
    /\ pc = "fetched"
    /\ page' = analyzePage(gen.sig, 0)
    /\ pc' = "analysed"
    /\ UNCHANGED <<url, flags, pageType, score, clock, runs, pages, site, agg, crawl, gen>>

GenerateSchema ==
    /\ pc = "analysed"
    /\ gen' = [gen EXCEPT !.schemas = generateSchemaForPage(page)]
    /\ pc' = "generated"
    /\ UNCHANGED <<url, flags, pageType, page, score, clock, runs, pages, site, agg, crawl>>

\* the generated Product object, the first snippet when there is one
ProductSnippet == gen.schemas[1].jsonLd

\* the generated Product object becomes the structured data of the host page
FeedBack(host) ==
    /\ pc = "generated"
    /\ gen.schemas # <<>> /\ gen.schemas[1].type = "Product"
    /\ gen' = [gen EXCEPT !.host = [host EXCEPT !.jsonLd = <<ProductSnippet>>]]
    /\ page' = analyzePage([host EXCEPT !.jsonLd = <<ProductSnippet>>], 0)
    /\ pc' = "reanalysed"
    /\ UNCHANGED <<url, flags, pageType, score, clock, runs, pages, site, agg, crawl>>

FeedBackSamePage == FeedBack(gen.sig)
FeedBackBarePage == FeedBack(SignalsOf(gen.sig.url, NoSchemas, LoChoice))

NextRoundTrip == AnalyseOriginal \/ GenerateSchema \/ FeedBackSamePage \/ FeedBackBarePage

SpecRoundTrip == InitRoundTrip /\ [][NextRoundTrip]_vars

\* C15: analysing the generated Product object as a page's structured data
\* recovers the product name and the price the object was generated from
C15_RoundTrip ==
    pc = "reanalysed" =>
        /\ ProductSnippet.name # <<>> =>
                page.contentExtraction.productName.value = ProductSnippet.name
        /\ ProductSnippet.hasOffers =>
                page.contentExtraction.price.value = ProductSnippet.offerPrice

\* the scored page is the scenario page of WirelessMouse
IsWirelessMouse ==
    /\ page.pageType = "product" /\ page.jsonLdScripts = <<>>
    /\ page.title # <<>> /\ page.descLength = 130 /\ page.headings.h1 = 1
    /\ page.contentExtraction.price.value = 2999
    /\ page.contentExtraction.availability.status = "in_stock"
    /\ page.images.total = 2 /\ page.images.withAlt = 2

\* C16: the scenario page scores name 5, description 5, price 10,
\* availability 8, images 4 or 5 and specifications 7, in all between 40 and
\* 59 with label "Fair"
C16_WirelessMouseScenario ==
    (pc = "scored" /\ IsWirelessMouse) =>
        /\ score.breakdown.identity.productName.points = 5
        /\ score.breakdown.identity.description.points = 5
        /\ score.breakdown.pricing.price.points = 10
        /\ score.breakdown.availability.points = 8
        /\ score.breakdown.images.points \in {4, 5}
        /\ score.breakdown.specifications.points = 7
        /\ score.score \in 40..59
        /\ score.label = "Fair"

(***************************************************************************)
(* LLMS.TXT GENERATION                                                     *)
(***************************************************************************)

PaymentWords == {"Visa", "Mastercard", "PayPal", "COD"}

\* the payment-provider names are blanked, then leading and trailing
\* non-word characters (star glyphs here) are stripped
RECURSIVE StripEdges(_)
StripEdges(t) ==
    IF t = <<>> THEN t
    ELSE IF Head(t).kind = "stars" THEN StripEdges(Tail(t))
    ELSE IF t[Len(t)].kind = "stars" THEN StripEdges(SubSeq(t, 1, Len(t) - 1))
    ELSE t

NotPaymentWord(tok) == ~(tok.kind = "word" /\ tok.sym \in PaymentWords)

cleanTitle(title) == StripEdges(SelectSeq(title, NotPaymentWord))

utilityPaths == {"cart", "search", "blog", "products", "collections"}

\* seg.charAt(0).toUpperCase() + seg.slice(1).replace(/-/g, " ")
Capitalised(seg) ==
    CASE seg = "product-x" -> "Product x"
      [] seg = "p-1" -> "P 1"
      [] seg = "shop" -> "Shop"
      [] seg = "view" -> "View"
      [] OTHER -> seg

\* the segments of one path that become categories, in path order
SegmentCategories(path) ==
    LET keep(i) ==
            /\ LongSeg(path[i])
            /\ path[i] \notin utilityPaths
            /\ \/ (i > 1 /\ path[i - 1] = "collections")
               \/ ~(i > 1 /\ path[i - 1] \in {"products", "p"})
        idx == SelectSeq([i \in 1..Len(path) |-> i], keep)
    IN [k \in 1..Len(idx) |-> Capitalised(path[idx[k]])]

RECURSIVE LlmsCategories(_, _)
LlmsCategories(acc, ps) ==
    IF ps = <<>> THEN acc
    ELSE LlmsCategories(AddAll(acc, SegmentCategories(Head(ps).url.path)), Tail(ps))

\* excludedPathPatterns on the pathname
ExcludedPath(u) ==
    u.path # <<>> /\ ~u.slash /\ u.path[Len(u.path)] \in {"cart", "search"}

KeyPageTitle(p) == IF cleanTitle(p.title) # <<>> THEN cleanTitle(p.title) ELSE <<Word("Untitled")>>

\* mutant: the tagline warning alone already lowers the confidence to low
LlmsConfidenceByKind(warnings) ==
    IF Len(warnings) = 0 THEN "high"
    ELSE IF warnings[1] = "Could not extract tagline from meta description or H1" THEN "low"
    ELSE IF Len(warnings) <= 2 THEN "medium" ELSE "low"

LlmsConfidence(warnings) ==
    IF Len(warnings) = 0 THEN "high"
    ELSE IF Len(warnings) <= 2 THEN "medium" ELSE "low"

generateLlmsTxt(ps) ==
    LET hasMain == ps # <<>>
        metaTagline == hasMain /\ ps[1].descLength > 0
        h1Tagline == hasMain /\ ps[1].h1Texts # <<>> /\ ps[1].h1Texts[1] # <<>>
        taglineSource == IF metaTagline THEN "metaDescription"
                         ELSE IF h1Tagline THEN "h1" ELSE "default"
        productPages == SelectSeq(ps, LAMBDA q : q.schemas.hasProductSchema /\ q.title # <<>>)
        products == [i \in 1..Len(productPages) |-> cleanTitle(productPages[i].title)]
        kept == SelectSeq(ps, LAMBDA q :
                    /\ ~ExcludedPath(q.url)
                    /\ (Len(q.jsonLdScripts) > 0 \/ q.schemas.hasProductSchema \/ q.title # <<>>))
        keyPages == [i \in 1..Min(10, Len(kept)) |-> [title |-> KeyPageTitle(kept[i]), url |-> kept[i].url]]
        warnings ==
            (IF taglineSource = "default"
             THEN <<"Could not extract tagline from meta description or H1">> ELSE <<>>)
            \o (IF Len(products) = 0
                THEN <<"No product schema found - product list may be incomplete">> ELSE <<>>)
            \o (IF ~metaTagline THEN <<"Limited organization information available">> ELSE <<>>)
            \o (IF Len(keyPages) < 5
                THEN <<"Few structured pages found - key pages list may be incomplete">> ELSE <<>>)
    IN [sections |-> [tagline |-> taglineSource,
                      products |-> SubSeq(products, 1, Min(20, Len(products))),
                      categories |-> LET c == LlmsCategories(<<>>, ps)
                                     IN SubSeq(c, 1, Min(10, Len(c))),
                      about |-> IF metaTagline THEN "metaDescription" ELSE "default",
                      keyPages |-> keyPages],
        warnings |-> warnings,
        confidence |-> LlmsConfidence(warnings)]

(***************************************************************************)
(* SPECIFICATION SpecLlms: generateLlmsTxt on the analysed pages of a      *)
(* crawl, up to MaxGenPages of them.                                       *)
(***************************************************************************)

MaxGenPages == 5

GenSignals ==
    { SignalsOf(U(<<"products", "view">>),
                [prod |-> TRUE, offer |-> TRUE, agg |-> TRUE, bcl |-> TRUE], HiChoice),
      [SignalsOf(U(<<"cart">>), [prod |-> FALSE, offer |-> FALSE, agg |-> FALSE, bcl |-> FALSE],
                 Merge(LoChoice, [title |-> <<Word("Cart")>>])) EXCEPT !.jsonLd = <<>>],
      [SignalsOf(U(<<"collections", "shop">>),
                 [prod |-> FALSE, offer |-> FALSE, agg |-> FALSE, bcl |-> FALSE],
                 Merge(LoChoice, [title |-> <<Word("Visa"), T, Stars(4, 1)>>,
                                  h1 |-> << <<T>> >>])) EXCEPT !.jsonLd = <<>>],
      [SignalsOf(U(<<"view">>), [prod |-> FALSE, offer |-> FALSE, agg |-> FALSE, bcl |-> FALSE],
                 LoChoice) EXCEPT !.jsonLd = <<>>],
      [SignalsOf(U(<<"shop">>), [prod |-> FALSE, offer |-> FALSE, agg |-> FALSE, bcl |-> FALSE],
                 Merge(LoChoice, [title |-> <<T>>])) EXCEPT !.jsonLd = <<>>] }

GenPages == {analyzePage(sg, 0) : sg \in GenSignals}

InitLlms ==
    /\ pc = "crawled"
    /\ pages \in UNION {[1..n -> GenPages] : n \in 0..MaxGenPages}
    /\ gen = NoResult
    /\ site = Idle /\ agg = NoResult
    /\ page = Idle /\ score = NoResult
    /\ url = Idle /\ flags = Idle /\ pageType = Null
    /\ clock = 0 /\ runs = <<>>
    /\ crawl = Idle

GenerateLlmsTxt ==
    /\ pc = "crawled"
    /\ gen' = generateLlmsTxt(pages)
    /\ pc' = "generated"
    /\ UNCHANGED <<url, flags, pageType, page, score, clock, runs, pages, site, agg, crawl>>

NextLlms == GenerateLlmsTxt

SpecLlms == InitLlms /\ [][NextLlms]_vars

\* the warnings generateLlmsTxt can raise, each read off the pages
TaglineMissing ==
    pages = <<>> \/ (pages[1].descLength = 0 /\
                     (pages[1].h1Texts = <<>> \/ pages[1].h1Texts[1] = <<>>))
NoProductListed == \A i \in 1..Len(pages) : ~(pages[i].schemas.hasProductSchema /\ pages[i].title # <<>>)
AboutMissing == pages = <<>> \/ pages[1].descLength = 0
FewKeyPages == Len(gen.sections.keyPages) < 5

WarningCount ==
    (IF TaglineMissing THEN 1 ELSE 0) + (IF NoProductListed THEN 1 ELSE 0) +
    (IF AboutMissing THEN 1 ELSE 0) + (IF FewKeyPages THEN 1 ELSE 0)

NameFromSchema == page.schemas.hasProductSchema /\ page.title # <<>>
NameFromH1 == page.h1Texts # <<>> /\ page.h1Texts[1] # <<>>
NameFromTitle == page.ogTitle # <<>> \/ page.title # <<>>

\* C18: name points are 10 with a schema-sourced name, else 8 with a
\* non-empty first H1, else 5 with an Open Graph or HTML title, else 0; a page
\* with any name source never gets 0
C18_NameTiers ==
    (pc = "scored" /\ Applicable) =>
        score.breakdown.identity.productName.points =
            (IF NameFromSchema THEN 10
             ELSE IF NameFromH1 THEN 8
             ELSE IF NameFromTitle THEN 5
             ELSE 0)

(***************************************************************************)
(* SPECIFICATION SpecAvail: extractAvailabilityFromText on every text of   *)
(* up to MaxTextLen tokens.                                                *)
(***************************************************************************)

MaxTextLen == 3

AvailTokens ==
    {Phrase("in stock"), Phrase("out of stock"), Phrase("pre-order"),
     Phrase("available on 5 May"), Phrase("shop now"), Word("Mouse")}

AvailTexts == UNION {[1..n -> AvailTokens] : n \in 0..MaxTextLen}

InitAvail ==
    /\ pc = "text"
    /\ \E t \in AvailTexts : gen = [text |-> t, availability |-> NoResult]
    /\ pages = <<>> /\ site = Idle /\ agg = NoResult
    /\ page = Idle /\ score = NoResult
    /\ url = Idle /\ flags = Idle /\ pageType = Null
    /\ clock = 0 /\ runs = <<>>
    /\ crawl = Idle

ExtractAvailability ==
    /\ pc = "text"
    /\ gen' = [gen EXCEPT !.availability = extractAvailabilityFromText(gen.text)]
    /\ pc' = "extracted"
    /\ UNCHANGED <<url, flags, pageType, page, score, clock, runs, pages, site, agg, crawl>>

NextAvail == ExtractAvailability

SpecAvail == InitAvail /\ [][NextAvail]_vars

TextHas(P(_)) == \E i \in 1..Len(gen.text) : P(gen.text[i])

\* C20: the families are tried in the order out-of-stock, preorder, in-stock
\* and the first family with a match gives the status; no match gives unknown
C20_FamilyOrder ==
    pc = "extracted" =>
        gen.availability.status =
            (IF TextHas(OutOfStockPhrase) THEN "out_of_stock"
             ELSE IF TextHas(PreorderPhrase) THEN "preorder"
             ELSE IF TextHas(InStockPhrase) THEN "in_stock"
             ELSE "unknown")

\* "in stock" stands before "pre-order" in the text and the status is preorder
C20_Witness ==
    /\ pc = "extracted"
    /\ Len(gen.text) >= 2
    /\ gen.text[1] = Phrase("in stock") /\ gen.text[2] = Phrase("pre-order")
    /\ ~TextHas(OutOfStockPhrase)
    /\ gen.availability.status = "preorder"

(***************************************************************************)
(* SPECIFICATION SpecIds: extractIdentifiers on up to MaxScripts JSON-LD   *)
(* objects and a body text.  The objects of the two families carry         *)
(* different values, so the object a value came from can be told.          *)
(***************************************************************************)

MaxScripts == 2

IdFamily(x) ==
    {NoIds,
     [NoIds EXCEPT !.gtin = "G" \o x],
     [NoIds EXCEPT !.gtin13 = "G13" \o x],
     [NoIds EXCEPT !.gtin = "G" \o x, !.gtin13 = "G13" \o x],
     [NoIds EXCEPT !.gtin14 = "G14" \o x],
     [NoIds EXCEPT !.gtin8 = "G8" \o x, !.gtin14 = "G14" \o x],
     [NoIds EXCEPT !.mpn = "M" \o x],
     [NoIds EXCEPT !.sku = "K" \o x],
     [NoIds EXCEPT !.productID = "P" \o x],
     [NoIds EXCEPT !.sku = "K" \o x, !.productID = "P" \o x],
     [NoIds EXCEPT !.gtin = "G" \o x, !.mpn = "M" \o x, !.sku = "K" \o x]}

IdObjects == {SchemaObj("Product", FALSE, NoNum, FALSE, 0, 0, 0, ids) : ids \in IdFamily("a") \cup IdFamily("b")}

IdLabel(kind, value) == Tok(kind, value, 0, 0)

BodyTexts ==
    {<<>>,
     <<Word("Mouse")>>,
     <<IdLabel("gtin", "GT")>>,
     <<IdLabel("mpn", "MT"), IdLabel("sku", "KT"), IdLabel("sku", "KT2")>>}

InitIds ==
    /\ pc = "page"
    /\ \E sc \in UNION {[1..n -> IdObjects] : n \in 0..MaxScripts}, b \in BodyTexts :
            gen = [scripts |-> sc, body |-> b, ids |-> NoResult]
    /\ pages = <<>> /\ site = Idle /\ agg = NoResult
    /\ page = Idle /\ score = NoResult
    /\ url = Idle /\ flags = Idle /\ pageType = Null
    /\ clock = 0 /\ runs = <<>>
    /\ crawl = Idle

ExtractIdentifiers ==
    /\ pc = "page"
    /\ gen' = [gen EXCEPT !.ids = extractIdentifiers(gen.scripts, gen.body)]
    /\ pc' = "identified"
    /\ UNCHANGED <<url, flags, pageType, page, score, clock, runs, pages, site, agg, crawl>>

NextIds == ExtractIdentifiers

SpecIds == InitIds /\ [][NextIds]_vars

\* the value of the first of the fields (in the order given) that object o has
RECURSIVE FieldValue(_, _)
FieldValue(o, fields) ==
    IF fields = <<>> THEN ""
    ELSE IF o.ids[Head(fields)] # "" THEN o.ids[Head(fields)]
    ELSE FieldValue(o, Tail(fields))

\* the indices of the objects that have a value for the field
Suppliers(fields) == {i \in 1..Len(gen.scripts) : FieldValue(gen.scripts[i], fields) # ""}

FirstLabel(kind) ==
    LET at == {i \in 1..Len(gen.body) : gen.body[i].kind = kind}
    IN IF at = {} THEN "" ELSE gen.body[CHOOSE i \in at : \A j \in at : i <= j].sym

Expected(fields, kind) ==
    IF Suppliers(fields) # {}
    THEN FieldValue(gen.scripts[CHOOSE i \in Suppliers(fields) : \A j \in Suppliers(fields) : i <= j],
                    fields)
    ELSE FirstLabel(kind)

\* C21: each of gtin, mpn and sku is the value of the first structured-data
\* object that has one; no later object overwrites it, and the body text is
\* consulted for a field only when no object supplied it
C21_FirstObjectWins ==
    pc = "identified" =>
        /\ gen.ids.gtin = Expected(<<"gtin", "gtin13", "gtin14", "gtin8">>, "gtin")
        /\ gen.ids.mpn = Expected(<<"mpn">>, "mpn")
        /\ gen.ids.sku = Expected(<<"sku", "productID">>, "sku")

\* two objects with different SKUs and a body text with a third one
C21_Witness ==
    /\ pc = "identified"
    /\ Len(gen.scripts) >= 2
    /\ gen.scripts[1].ids.sku = "Ka" /\ gen.scripts[2].ids.sku = "Kb"
    /\ FirstLabel("sku") = "KT"
    /\ gen.ids.sku = "Ka" /\ gen.ids.mpn = "MT"

(***************************************************************************)
(* SPECIFICATION SpecPrice: extractPriceFromText on every text of up to    *)
(* MaxPriceTokens tokens.                                                  *)
(***************************************************************************)

MaxPriceTokens == 3

PriceTokens ==
    {SymAmt("$", 0), SymAmt("$", 50), SymAmt("A$", 50), SymAmt("Euro", 30),
     AmtCode(50, "EUR"), AmtCode(40, "eur"), Word("Mouse")}

PriceTexts == UNION {[1..n -> PriceTokens] : n \in 0..MaxPriceTokens}

InitPrice ==
    /\ pc = "text"
    /\ \E t \in PriceTexts : gen = [text |-> t, price |-> NoResult]
    /\ pages = <<>> /\ site = Idle /\ agg = NoResult
    /\ page = Idle /\ score = NoResult
    /\ url = Idle /\ flags = Idle /\ pageType = Null
    /\ clock = 0 /\ runs = <<>>
    /\ crawl = Idle

ExtractPrice ==
    /\ pc = "text"
    /\ gen' = [gen EXCEPT !.price = extractPriceFromText(gen.text)]
    /\ pc' = "priced"
    /\ UNCHANGED <<url, flags, pageType, page, score, clock, runs, pages, site, agg, crawl>>

NextPrice == ExtractPrice

SpecPrice == InitPrice /\ [][NextPrice]_vars

\* the non-zero matches of the four pattern families, family by family and
\* in text order within a family
NonZero(t) == t.amt > 0
NonZeroMatches ==
    SelectSeq(Matches(gen.text, PricePattern1), NonZero)
        \o SelectSeq(Matches(gen.text, PricePattern2), NonZero)
        \o SelectSeq(Matches(gen.text, PricePattern3), NonZero)
        \o SelectSeq(Matches(gen.text, PricePattern4), NonZero)

\* C22: the price is the first non-zero match, the pattern families tried in
\* order; the result is null only when no family has a non-zero match
C22_FirstNonZeroMatch ==
    pc = "priced" =>
        IF NonZeroMatches = <<>> THEN gen.price = NoPrice
        ELSE gen.price.value = Head(NonZeroMatches).amt

\* the match the returned price was read from: the first match of the first
\* family whose first match is not zero
FirstMatches ==
    SelectSeq(<<Matches(gen.text, PricePattern1), Matches(gen.text, PricePattern2),
                Matches(gen.text, PricePattern3), Matches(gen.text, PricePattern4)>>,
              LAMBDA ms : ms # <<>> /\ Head(ms).amt > 0)
ReturnedMatch == Head(Head(FirstMatches))

\* the symbol table as a function
TableCode(symbol) ==
    currencySymbols[CHOOSE i \in 1..Len(currencySymbols) : currencySymbols[i].symbol = symbol].code

UpperCode(c) == IF c = "eur" THEN "EUR" ELSE c

\* C23: the currency is the code the symbol table gives the matched symbol,
\* unless the match carries a three-letter currency code, which overrides it
C23_CurrencyOfSymbol ==
    (pc = "priced" /\ gen.price # NoPrice) =>
        gen.price.currency =
            (IF ReturnedMatch.kind = "amtcode" THEN UpperCode(ReturnedMatch.sym)
             ELSE TableCode(ReturnedMatch.sym))

(***************************************************************************)
(* SPECIFICATION SpecSiteScore: calculateSiteDiscoverabilityScore over the *)
(* values of each of its parameters that its branches tell apart.          *)
(***************************************************************************)

MaxCategories == 6

CategoryNames == [i \in 1..(MaxCategories + 1) |-> <<"category", i>>]
BrandNames == [i \in 1..5 |-> <<"brand", i>>]

OrgChoices ==
    {[present |-> FALSE, hasName |-> FALSE, hasLogo |-> FALSE, hasSameAs |-> FALSE,
      hasDescription |-> FALSE]}
    \cup [present : {TRUE}, hasName : BOOLEAN, hasLogo : BOOLEAN, hasSameAs : BOOLEAN,
          hasDescription : BOOLEAN]

SiteParams ==
    [llmsTxt : LlmsChoices,
     aiCrawlerAccess : {checkAICrawlerAccess(r) : r \in RobotsChoices},
     hasSitemap : BOOLEAN,
     sitemapProductCount : {20, 21, 101},
     organizationSchema : OrgChoices,
     categories : {SubSeq(CategoryNames, 1, n) : n \in 0..MaxCategories},
     brandVariations : {SubSeq(BrandNames, 1, n) : n \in {0, 1, 3, 4}},
     isHttps : BOOLEAN]

InitSiteScore ==
    /\ pc = "params"
    /\ \E q \in SiteParams : gen = [params |-> q]
    /\ score = NoResult
    /\ pages = <<>> /\ site = Idle /\ agg = NoResult
    /\ page = Idle
    /\ url = Idle /\ flags = Idle /\ pageType = Null
    /\ clock = 0 /\ runs = <<>>
    /\ crawl = Idle

ScoreSiteParams ==
    /\ pc = "params"
    /\ score' = calculateSiteDiscoverabilityScore(gen.params)
    /\ pc' = "siteScored"
    /\ UNCHANGED <<url, flags, pageType, page, clock, runs, pages, site, agg, crawl, gen>>

NextSiteScore == ScoreSiteParams

SpecSiteScore == InitSiteScore /\ [][NextSiteScore]_vars

MeasurableCategories ==
    {"llmsTxt", "aiCrawlerAccess", "sitemap", "organizationSchema", "categoryPresence",
     "brandConsistency", "technicalHealth"}

\* C24: the site score lies in 0..100 and is the sum of the points of the
\* seven measurable categories, each between 0 and its max; externalMentions
\* and domainAuthority are present, not measurable and carry no points
C24_SiteScoreIsSum ==
    pc = "siteScored" =>
        LET b == score.breakdown
        IN /\ score.score \in 0..100
           /\ score.score = b.llmsTxt.points + b.aiCrawlerAccess.points + b.sitemap.points +
                            b.organizationSchema.points + b.categoryPresence.points +
                            b.brandConsistency.points + b.technicalHealth.points
           /\ \A c \in MeasurableCategories : b[c].points \in 0..b[c].max
           /\ DOMAIN b = MeasurableCategories \cup {"externalMentions", "domainAuthority"}
           /\ ~b.externalMentions.measurable /\ ~b.domainAuthority.measurable
           /\ "points" \notin DOMAIN b.externalMentions
           /\ "points" \notin DOMAIN b.domainAuthority

\* the highest score: every category at its max
C24_Witness ==
    /\ pc = "siteScored"
    /\ Len(gen.params.categories) = MaxCategories
    /\ score.breakdown.categoryPresence.points = 10
    /\ score.score = 95

\* C25: every generated snippet has confidence high with no missing field,
\* medium with one or two, low with more than two
C25_SnippetConfidence ==
    pc = "generated" =>
        \A i \in 1..Len(gen.schemas) :
            gen.schemas[i].confidence =
                (IF Len(gen.schemas[i].fieldsMissing) = 0 THEN "high"
                 ELSE IF Len(gen.schemas[i].fieldsMissing) <= 2 THEN "medium" ELSE "low")

\* the utility pages, by the last segment of the path
UtilityPage(u) == u.path # <<>> /\ u.path[Len(u.path)] \in {"cart", "search"}

CarriesStructuredData(p) == Len(p.jsonLdScripts) > 0 \/ p.schemas.hasProductSchema

\* C26: the key-pages list of generateLlmsTxt has at most 10 entries, in
\* crawl order, none of them a utility page, each of a page with structured data
C26_KeyPages ==
    pc = "generated" =>
        LET kp == gen.sections.keyPages
        IN /\ Len(kp) <= 10
           /\ \E f \in [1..Len(kp) -> 1..Len(pages)] :
                /\ \A i \in 1..Len(kp) : \A j \in 1..Len(kp) : i < j => f[i] < f[j]
                /\ \A i \in 1..Len(kp) :
                      /\ kp[i].url = pages[f[i]].url
                      /\ ~UtilityPage(pages[f[i]].url)
                      /\ CarriesStructuredData(pages[f[i]])

\* C27: the pages analysed in one request never exceed the page limit
C27_PageLimit == Len(pages) <= crawl.pageLimit

\* the log entries of the fetches that were made and analysed
OkLog == SelectSeq(crawl.log, LAMBDA e : e.outcome = "ok")

\* C28: no URL is fetched twice, and no two analysed fetches resolved to the
\* same URL
C28_NoDuplicateAnalysis ==
    LET fetched == SelectSeq(crawl.log, LAMBDA e : e.outcome # "skipped")
    IN /\ \A i, j \in 1..Len(fetched) : i # j => fetched[i].url # fetched[j].url
       /\ \A i, j \in 1..Len(OkLog) : i # j => OkLog[i].resolved # OkLog[j].resolved
       /\ \A i, j \in 1..Len(pages) : i # j => pages[i].url # pages[j].url

(***************************************************************************)
(* SPECIFICATION SpecFetch: fetchWithRedirects and resolveShortUrl, one    *)
(* request of the redirect loop per step.  The server answers each request *)
(* as it likes: a redirect to some URL, a redirect status without a        *)
(* Location header, a success, an HTTP error, or no answer at all (the     *)
(* fetch rejects, on a network error or on the abort of the timeout).      *)
(***************************************************************************)

MAX_REDIRECTS == 10

FetchUrls == {ViewUrl, ProductUrl}
MaxRedirectsChoices == {0, 1, 2, MAX_REDIRECTS}

\* mutant: the loop runs one more time
WithinRedirectsInclusive(redirects, maxRedirects) == redirects <= maxRedirects + 1

\* while (redirects <= maxRedirects)
WithinRedirects(redirects, maxRedirects) == redirects <= maxRedirects

InitFetch ==
    /\ pc = "fetching"
    /\ \E u \in FetchUrls :
          \/ \E m \in MaxRedirectsChoices :
                gen = [fn |-> "fetchWithRedirects", url |-> u, maxRedirects |-> m,
                       currentUrl |-> u, redirectChain |-> <<u>>, redirects |-> 0,
                       responses |-> <<>>, result |-> NoResult, error |-> Null]
          \/ gen = [fn |-> "resolveShortUrl", url |-> u, maxRedirects |-> MAX_REDIRECTS,
                    currentUrl |-> u, redirectChain |-> <<u>>, redirects |-> 0,
                    responses |-> <<>>, result |-> NoResult, error |-> Null]
    /\ pages = <<>> /\ site = Idle /\ agg = NoResult
    /\ page = Idle /\ score = NoResult
    /\ url = Idle /\ flags = Idle /\ pageType = Null
    /\ clock = 0 /\ runs = <<>>
    /\ crawl = Idle

Requesting == pc = "fetching" /\ WithinRedirects(gen.redirects, gen.maxRedirects)

FetchResult == [finalUrl |-> gen.currentUrl, redirectChain |-> gen.redirectChain]

\* either function: a redirect status with a Location header resolving to v
FollowRedirect(v) ==
    /\ Requesting
    /\ gen' = [gen EXCEPT !.redirectChain = Append(@, v), !.currentUrl = v,
                          !.redirects = @ + 1, !.responses = Append(@, "redirect")]
    /\ UNCHANGED <<pc, url, flags, pageType, page, score, clock, runs, pages, site, agg, crawl>>

Throw(kind, message) ==
    /\ gen' = [gen EXCEPT !.responses = IF kind = Null THEN @ ELSE Append(@, kind),
                          !.error = message]
    /\ pc' = "threw"
    /\ UNCHANGED <<url, flags, pageType, page, score, clock, runs, pages, site, agg, crawl>>

Return(kind, result) ==
    /\ gen' = [gen EXCEPT !.responses = IF kind = Null THEN @ ELSE Append(@, kind),
                          !.result = result]
    /\ pc' = "returned"
    /\ UNCHANGED <<url, flags, pageType, page, score, clock, runs, pages, site, agg, crawl>>

\* fetchWithRedirects: a redirect status without a Location header
FetchNoLocation ==
    /\ Requesting /\ gen.fn = "fetchWithRedirects"
    /\ Throw("noLocation", "Redirect without location header")

\* fetchWithRedirects: a response that is neither a redirect nor ok
FetchHttpError ==
    /\ Requesting /\ gen.fn = "fetchWithRedirects"
    /\ Throw("httpError", "HTTP")

\* fetchWithRedirects: the fetch rejects; the catch rethrows
FetchRejected ==
    /\ Requesting /\ gen.fn = "fetchWithRedirects"
    /\ Throw("rejected", "fetch failed")

\* fetchWithRedirects: the first response that is no redirect and is ok
FetchOk ==
    /\ Requesting /\ gen.fn = "fetchWithRedirects"
    /\ Return("ok", FetchResult)

\* fetchWithRedirects: the loop ended without a return
FetchTooMany ==
    /\ pc = "fetching" /\ gen.fn = "fetchWithRedirects"
    /\ ~WithinRedirects(gen.redirects, gen.maxRedirects)
    /\ Throw(Null, "Too many redirects")

\* resolveShortUrl: a redirect without Location, or any response that is no
\* redirect, breaks the loop
ResolveBreak(kind) ==
    /\ Requesting /\ gen.fn = "resolveShortUrl"
    /\ Return(kind, FetchResult)

\* resolveShortUrl: the loop ended without a break
ResolveExhausted ==
    /\ pc = "fetching" /\ gen.fn = "resolveShortUrl"
    /\ ~WithinRedirects(gen.redirects, gen.maxRedirects)
    /\ Return(Null, FetchResult)

\* resolveShortUrl: the fetch rejects; the catch answers with the original URL
ResolveRejected ==
    /\ Requesting /\ gen.fn = "resolveShortUrl"
    /\ Return("rejected", [finalUrl |-> gen.url, redirectChain |-> gen.redirectChain])

NextFetch ==
    \/ (\E v \in FetchUrls : FollowRedirect(v))
    \/ FetchNoLocation \/ FetchHttpError \/ FetchRejected \/ FetchOk \/ FetchTooMany
    \/ (\E k \in {"noLocation", "httpError", "ok"} : ResolveBreak(k))
    \/ ResolveExhausted \/ ResolveRejected

SpecFetch == InitFetch /\ [][NextFetch]_vars

\* every request is answered within FETCH_TIMEOUT or the fetch is aborted,
\* and the loop goes on as soon as it is
SpecFetchLive == SpecFetch /\ WF_vars(NextFetch)

FetchDone == pc \in {"returned", "threw"}
AllRedirects == \A i \in 1..Len(gen.responses) : gen.responses[i] = "redirect"

\* C29: fetchWithRedirects ends after at most maxRedirects + 1 requests; it
\* returns on the first successful response that is no redirect, after at
\* most maxRedirects redirects and with finalUrl the last element of
\* redirectChain; it fails with "Too many redirects" when all
\* maxRedirects + 1 requests were answered with a redirect
C29_FetchTerminates ==
    /\ [](gen.fn = "fetchWithRedirects" =>
            /\ Len(gen.responses) <= gen.maxRedirects + 1
            /\ pc = "returned" <=>
                  (gen.responses # <<>> /\ gen.responses[Len(gen.responses)] = "ok")
            /\ pc = "returned" =>
                  /\ \A i \in 1..(Len(gen.responses) - 1) : gen.responses[i] = "redirect"
                  /\ Len(gen.responses) - 1 <= gen.maxRedirects
                  /\ gen.result.redirectChain = gen.redirectChain
                  /\ gen.result.finalUrl = gen.redirectChain[Len(gen.redirectChain)]
            /\ (FetchDone /\ AllRedirects /\ Len(gen.responses) = gen.maxRedirects + 1) =>
                  (pc = "threw" /\ gen.error = "Too many redirects"))
    /\ <>FetchDone

\* a redirect cycle between two URLs, followed for the default 11 requests
C29_Witness ==
    /\ gen.fn = "fetchWithRedirects" /\ gen.maxRedirects = MAX_REDIRECTS
    /\ pc = "threw" /\ gen.error = "Too many redirects"
    /\ Len(gen.responses) = MAX_REDIRECTS + 1
    /\ gen.redirectChain[3] = gen.redirectChain[1] /\ gen.redirectChain[2] # gen.redirectChain[1]

(***************************************************************************)
(* SPECIFICATION SpecScan: the loop of checkAICrawlerAccess over the lines *)
(* of robots.txt, one line per step, then the allow flags.                 *)
(***************************************************************************)

Allow(path) == [kind |-> "allow", value |-> path]

ScanLines == RobotsLines \cup {Allow("/")}
ScanTexts == UNION {[1..n -> ScanLines] : n \in 0..MaxRobotsLines}

InitScan ==
    /\ pc = "scanning"
    /\ \E t \in ScanTexts :
          gen = [lines |-> t, idx |-> 1, st |-> [agent |-> "", blocked |-> NoneBlocked]]
    /\ flags = Idle
    /\ pages = <<>> /\ site = Idle /\ agg = NoResult
    /\ page = Idle /\ score = NoResult
    /\ url = Idle /\ pageType = Null
    /\ clock = 0 /\ runs = <<>>
    /\ crawl = Idle

\* if (!robotsTxt): no scan, every crawler allowed
NoRobotsTxt ==
    /\ pc = "scanning" /\ ~HasText(gen.lines)
    /\ flags' = [allowsOAI |-> TRUE, allowsGPTBot |-> TRUE, allowsChatGPTUser |-> TRUE,
                 hasRobotsTxt |-> FALSE]
    /\ pc' = "scanned"
    /\ UNCHANGED <<url, pageType, page, score, clock, runs, pages, site, agg, crawl, gen>>

\* one iteration of "for (const line of lines)"
ScanLine ==
    /\ pc = "scanning" /\ HasText(gen.lines) /\ gen.idx <= Len(gen.lines)
    /\ gen' = [gen EXCEPT !.st = CrawlerStep(@, gen.lines[gen.idx]), !.idx = @ + 1]
    /\ UNCHANGED <<pc, url, flags, pageType, page, score, clock, runs, pages, site, agg, crawl>>

\* after the last line: the allow flags
ReportAccess ==
    /\ pc = "scanning" /\ HasText(gen.lines) /\ gen.idx > Len(gen.lines)
    /\ flags' = [allowsOAI |-> ~gen.st.blocked.oai /\ ~gen.st.blocked.all,
                 allowsGPTBot |-> ~gen.st.blocked.gptbot /\ ~gen.st.blocked.all,
                 allowsChatGPTUser |-> ~gen.st.blocked.chatgpt /\ ~gen.st.blocked.all,
                 hasRobotsTxt |-> TRUE]
    /\ pc' = "scanned"
    /\ UNCHANGED <<url, pageType, page, score, clock, runs, pages, site, agg, crawl, gen>>

NextScan == NoRobotsTxt \/ ScanLine \/ ReportAccess

SpecScan == InitScan /\ [][NextScan]_vars

BlockedKeys == {"oai", "gptbot", "chatgpt", "all"}

====
